---- MODULE Spec2Model ----
(***************************************************************************)
(* A model of the Render2Go scripting engine: the recursive-descent       *)
(* parser, the tree-walking evaluator, the animation variants and the     *)
(* Scene's frame-stepping PlayAnimation loop.                             *)
(*                                                                         *)
(* float64 values are modelled as fixed-point integers with Q units per   *)
(* 1.0 (products are truncated towards zero); the IEEE NaN that 0/0       *)
(* produces is the distinguished value NaN, which every arithmetic        *)
(* operator propagates and every comparison answers FALSE on.             *)
(***************************************************************************)
EXTENDS Integers, Sequences, FiniteSets, TLC

\* ------------------------------------------------------------------------
\* Bounds of the model
\* ------------------------------------------------------------------------

\* fixed-point resolution: Q units per 1.0
Q == 1000

\* direct Update calls made on one animation
MaxUpdates == 2

\* ------------------------------------------------------------------------
\* float64 arithmetic
\* ------------------------------------------------------------------------

NaN == -1073741824

IsNaN(a) == a = NaN

Inf == 1073741823

Abs(a) == IF IsNaN(a) THEN NaN ELSE IF a < 0 THEN -a ELSE a

\* integer quotient truncated towards zero (float -> fixed-point rounding)
TDiv(a, b) == IF a >= 0 THEN a \div b ELSE -((-a) \div b)

FAdd(a, b) == IF IsNaN(a) \/ IsNaN(b) THEN NaN ELSE a + b

FSub(a, b) == IF IsNaN(a) \/ IsNaN(b) THEN NaN ELSE a - b

\* a * b of two fixed-point values
FMul(a, b) == IF IsNaN(a) \/ IsNaN(b) THEN NaN ELSE TDiv(a * b, Q)

\* a / b of two fixed-point values; 0/0 is NaN, x/0 is +Inf or -Inf
FDiv(a, b) ==
    IF IsNaN(a) \/ IsNaN(b) THEN NaN
    ELSE IF b = 0 THEN (IF a = 0 THEN NaN ELSE IF a > 0 THEN Inf ELSE -Inf)
    ELSE TDiv(a * Q, b)

FGe(a, b) == ~IsNaN(a) /\ ~IsNaN(b) /\ a >= b

FGt(a, b) == ~IsNaN(a) /\ ~IsNaN(b) /\ a > b

FLt(a, b) == ~IsNaN(a) /\ ~IsNaN(b) /\ a < b

FLe(a, b) == ~IsNaN(a) /\ ~IsNaN(b) /\ a <= b

\* ------------------------------------------------------------------------
\* math: Vector2 and the easing functions
\* ------------------------------------------------------------------------

Vec(x, y) == [X |-> x, Y |-> y]

VAdd(v, w) == Vec(FAdd(v.X, w.X), FAdd(v.Y, w.Y))

VSub(v, w) == Vec(FSub(v.X, w.X), FSub(v.Y, w.Y))

VScale(v, f) == Vec(FMul(v.X, f), FMul(v.Y, f))

Interpolate(a, b, t) == FAdd(a, FMul(t, FSub(b, a)))

SmoothStep(t) == FMul(FMul(t, t), FSub(3 * Q, FMul(2 * Q, t)))

EaseInOut(t) ==
    IF FLt(t, Q \div 2) THEN FMul(FMul(2 * Q, t), t)
    ELSE FAdd(-Q, FMul(FSub(4 * Q, FMul(2 * Q, t)), t))

EaseIn(t) == FMul(t, t)

EaseOut(t) == FSub(Q, FMul(FSub(Q, t), FSub(Q, t)))

\* ------------------------------------------------------------------------
\* math.Sin, math.Cos, math.Pow(2, y) at the fixed-point resolution
\* ------------------------------------------------------------------------

Pi == (31416 * Q) \div 10000

\* a * b rounded to the nearest unit (a, b >= 0)
RMul(a, b) == (a * b + Q \div 2) \div Q

\* Taylor polynomials of sin and cos on [0, Pi/2]
SinQuarter(x) ==
    LET x2 == RMul(x, x)
        x3 == RMul(x2, x)
        x5 == RMul(x3, x2)
        x7 == RMul(x5, x2)
    IN  x - (x3 + 3) \div 6 + (x5 + 60) \div 120 - (x7 + 2520) \div 5040

CosQuarter(x) ==
    LET x2 == RMul(x, x)
        x4 == RMul(x2, x2)
        x6 == RMul(x4, x2)
        x8 == RMul(x6, x2)
    IN  Q - (x2 + 1) \div 2 + (x4 + 12) \div 24 - (x6 + 360) \div 720
          + (x8 + 20160) \div 40320

\* sin and cos on [0, 2 Pi): the argument folded into the first quadrant
SinTurn(x) ==
    (IF x > Pi THEN -1 ELSE 1)
      * SinQuarter(IF x > Pi
                   THEN (IF x - Pi > Pi \div 2 THEN 2 * Pi - x ELSE x - Pi)
                   ELSE (IF x > Pi \div 2 THEN Pi - x ELSE x))

CosTurn(x) ==
    (IF (x > Pi) = ((IF x > Pi THEN x - Pi ELSE x) > Pi \div 2) THEN 1 ELSE -1)
      * CosQuarter(IF x > Pi
                   THEN (IF x - Pi > Pi \div 2 THEN 2 * Pi - x ELSE x - Pi)
                   ELSE (IF x > Pi \div 2 THEN Pi - x ELSE x))

Sin(x) ==
    IF IsNaN(x) THEN NaN
    ELSE (IF x < 0 THEN -1 ELSE 1) * SinTurn(Abs(x) % (2 * Pi))

Cos(x) == IF IsNaN(x) THEN NaN ELSE CosTurn(Abs(x) % (2 * Pi))

RECURSIVE Halve(_, _)
Halve(v, k) == IF k = 0 THEN v ELSE Halve(v \div 2, k - 1)

\* 2^y for y <= 0: 2^(-k) * 2^f with k = ceil(-y), f in [0, 1)
Pow2(y) ==
    IF IsNaN(y) THEN NaN
    ELSE LET k  == ((-y) + Q - 1) \div Q
             f  == y + k * Q
             u  == FMul(f, (6931 * Q) \div 10000)
             u2 == FMul(u, u)
             u3 == FMul(u2, u)
         IN  Halve(Q + u + u2 \div 2 + u3 \div 6, k)

\* ------------------------------------------------------------------------
\* animation: the interpolation strategies
\* ------------------------------------------------------------------------

InterpolationTypes == {"Linear", "Smooth", "EaseIn", "EaseOut", "EaseInOut", "Elastic", "Bounce"}

elasticEaseOut(t, amplitude, period) ==
    IF IsNaN(t) THEN NaN
    ELSE IF t = 0 THEN 0
    ELSE IF t = Q THEN Q
    ELSE LET s == period \div 4
         IN  FAdd(FMul(FMul(amplitude, Pow2(FMul(-10 * Q, t))),
                       Sin(FDiv(FMul(FSub(t, s), 2 * Pi), period))), Q)

\* 7.5625 = 121/16 and the break points are k/11, so each branch is an
\* exact quotient rounded once
bounceEaseOut(t) ==
    IF IsNaN(t) THEN NaN
    ELSE IF 11 * t < 4 * Q THEN TDiv(121 * t * t, 16 * Q)
    ELSE IF 11 * t < 8 * Q
         THEN TDiv((11 * t - 6 * Q) * (11 * t - 6 * Q) + 12 * Q * Q, 16 * Q)
    ELSE IF 11 * t < 10 * Q
         THEN TDiv((11 * t - 9 * Q) * (11 * t - 9 * Q) + 15 * Q * Q, 16 * Q)
    ELSE TDiv((22 * t - 21 * Q) * (22 * t - 21 * Q) + 63 * Q * Q, 64 * Q)

\* the eased parameter each Interpolator applies before gmMath.Interpolate
InterpEase(interpType, t) ==
    CASE interpType = "Linear"    -> t
      [] interpType = "Smooth"    -> SmoothStep(t)
      [] interpType = "EaseIn"    -> EaseIn(t)
      [] interpType = "EaseOut"   -> EaseOut(t)
      [] interpType = "EaseInOut" -> EaseInOut(t)
      [] interpType = "Elastic"   -> elasticEaseOut(t, Q, (3 * Q) \div 10)
      [] interpType = "Bounce"    -> bounceEaseOut(t)
      [] OTHER                    -> t

InterpolateFloat(interpType, start, end, t) ==
    Interpolate(start, end, InterpEase(interpType, t))

\* the blend of two vectors every Interpolate method ends in
LerpVector2(start, end, t) ==
    Vec(Interpolate(start.X, end.X, t), Interpolate(start.Y, end.Y, t))

InterpolateVec(interpType, start, end, t) ==
    LerpVector2(start, end, InterpEase(interpType, t))

\* ------------------------------------------------------------------------
\* core.BaseMobject and the geometry constructors
\* ------------------------------------------------------------------------

RGBA(r, g, b, a) == [R |-> r, G |-> g, B |-> b, A |-> a]

White == RGBA(255, 255, 255, 255)

\* the accumulation loop of GetCenter over points[lo..hi] (integer addition is
\* associative, so the range is summed by halves)
RECURSIVE SumX(_, _, _)
SumX(points, lo, hi) ==
    IF lo > hi THEN 0
    ELSE IF lo = hi THEN points[lo].X
    ELSE LET mid == (lo + hi) \div 2
         IN  FAdd(SumX(points, lo, mid), SumX(points, mid + 1, hi))

RECURSIVE SumY(_, _, _)
SumY(points, lo, hi) ==
    IF lo > hi THEN 0
    ELSE IF lo = hi THEN points[lo].Y
    ELSE LET mid == (lo + hi) \div 2
         IN  FAdd(SumY(points, lo, mid), SumY(points, mid + 1, hi))

\* sum * (1/n), rounded to the nearest unit
MeanOf(sum, n) == IF IsNaN(sum) THEN NaN ELSE (2 * sum + n) \div (2 * n)

GetCenter(m) ==
    IF Len(m.points) = 0 THEN Vec(0, 0)
    ELSE Vec(MeanOf(SumX(m.points, 1, Len(m.points)), Len(m.points)),
             MeanOf(SumY(m.points, 1, Len(m.points)), Len(m.points)))

Shift(m, offset) ==
    [m EXCEPT !.points = [i \in 1..Len(m.points) |-> VAdd(m.points[i], offset)]]

MoveTo(m, position) == Shift(m, VSub(position, GetCenter(m)))

Scale(m, factor) ==
    LET center == GetCenter(m)
    IN  [m EXCEPT !.points = [i \in 1..Len(m.points) |->
            VAdd(center, VScale(VSub(m.points[i], center), factor))]]

Rotate(m, angle) ==
    LET center == GetCenter(m)
        cos == Cos(angle)
        sin == Sin(angle)
    IN  [m EXCEPT !.points = [i \in 1..Len(m.points) |->
            LET diff == VSub(m.points[i], center)
            IN  VAdd(center, Vec(FSub(FMul(diff.X, cos), FMul(diff.Y, sin)),
                                 FAdd(FMul(diff.X, sin), FMul(diff.Y, cos))))]]

SetPoints(m, points) == [m EXCEPT !.points = points]

SetFillOpacity(m, opacity) == [m EXCEPT !.fillOpacity = opacity]

SetColor(m, c) == [m EXCEPT !.color = c]

\* the fields every shape embeds
NewBaseMobject ==
    [points |-> <<>>, color |-> White, strokeWidth |-> 2 * Q, fillOpacity |-> 0]

NumPoints == 64

\* cos(2 Pi j / 64) for the first quadrant, in units of 1/10000
QuadrantCos ==
    << 10000, 9952, 9808, 9569, 9239, 8819, 8315, 7730, 7071, 6344, 5556, 4714, 3827, 2903, 1951, 980, 0 >>

\* radius * cos(2 Pi i / 64) and radius * sin(2 Pi i / 64)
CircleCos(radius, i) ==
    LET a(j) == TDiv(radius * QuadrantCos[j + 1], 10000)
    IN  IF IsNaN(radius) THEN NaN
        ELSE IF i <= 16 THEN a(i)
        ELSE IF i <= 32 THEN -a(32 - i)
        ELSE IF i <= 48 THEN -a(i - 32)
        ELSE a(64 - i)

CircleSin(radius, i) == CircleCos(radius, (i + 48) % NumPoints)

CirclePoints(center, radius) ==
    [k \in 1..NumPoints |->
        Vec(FAdd(center.X, CircleCos(radius, k - 1)),
            FAdd(center.Y, CircleSin(radius, k - 1)))]

NewCircle(radius) ==
    [kind |-> "circle", points |-> CirclePoints(Vec(0, 0), radius),
     color |-> RGBA(0, 0, 0, 255), strokeWidth |-> 2 * Q, fillOpacity |-> 0,
     radius |-> radius, center |-> Vec(0, 0)]

SetRadius(c, radius) ==
    [c EXCEPT !.radius = radius, !.points = CirclePoints(c.center, radius)]

RectPoints(center, width, height) ==
    LET halfWidth  == TDiv(width, 2)
        halfHeight == TDiv(height, 2)
    IN  << Vec(center.X - halfWidth, center.Y - halfHeight),
           Vec(center.X + halfWidth, center.Y - halfHeight),
           Vec(center.X + halfWidth, center.Y + halfHeight),
           Vec(center.X - halfWidth, center.Y + halfHeight),
           Vec(center.X - halfWidth, center.Y - halfHeight) >>

NewRectangle(width, height) ==
    [kind |-> "rectangle", points |-> RectPoints(Vec(0, 0), width, height),
     color |-> White, strokeWidth |-> 2 * Q, fillOpacity |-> 0,
     width |-> width, height |-> height, center |-> Vec(0, 0)]

\* Polygon.generatePoints: the vertices closed by the first one; nothing
\* for no vertices
PolygonPoints(vertices) ==
    IF Len(vertices) = 0 THEN <<>> ELSE Append(vertices, vertices[1])

NewPolygon(vertices) ==
    [kind |-> "polygon", points |-> PolygonPoints(vertices),
     color |-> White, strokeWidth |-> 2 * Q, fillOpacity |-> 0, vertices |-> vertices]

\* ------------------------------------------------------------------------
\* animation: the Animation variants
\* ------------------------------------------------------------------------

\* the gmMath function a BaseAnimation holds in easingFunc
ApplyEasing(easingFunc, t) ==
    CASE easingFunc = "SmoothStep" -> SmoothStep(t)
      [] easingFunc = "EaseInOut"  -> EaseInOut(t)
      [] easingFunc = "EaseIn"     -> EaseIn(t)
      [] easingFunc = "EaseOut"    -> EaseOut(t)
      [] OTHER                     -> t

\* the BaseAnimation fields; target is the name the target shape is kept under
NewBaseAnimation(kind, target, duration) ==
    [kind |-> kind, target |-> target, duration |-> duration,
     easingFunc |-> "SmoothStep", interpolation |-> "Smooth",
     progress |-> 0, finished |-> FALSE]

RECURSIVE Reset(_)
Reset(a) ==
    IF a.kind = "group"
    THEN [a EXCEPT !.animations =
            [i \in 1..Len(a.animations) |-> Reset(a.animations[i])]]
    ELSE [a EXCEPT !.progress = 0, !.finished = FALSE]

SetInterpolation(a, interp) == [a EXCEPT !.interpolation = interp]

NewMoveToAnimation(m, target, endPos, duration) ==
    [f \in {"startPos", "endPos"} \cup DOMAIN NewBaseAnimation("move", target, duration) |->
        CASE f = "startPos" -> GetCenter(m)
          [] f = "endPos"   -> endPos
          [] OTHER          -> NewBaseAnimation("move", target, duration)[f]]

\* initialPoints is target.GetPoints(): the target's own slice, shared with
\* the target (aliased) until the target's slice is replaced by SetPoints
NewScaleAnimation(m, target, endScale, duration) ==
    [f \in {"startScale", "endScale", "initialPoints", "aliased"}
            \cup DOMAIN NewBaseAnimation("scale", target, duration) |->
        CASE f = "startScale"    -> Q
          [] f = "endScale"      -> endScale
          [] f = "initialPoints" -> m.points
          [] f = "aliased"       -> TRUE
          [] OTHER               -> NewBaseAnimation("scale", target, duration)[f]]

NewRotateAnimation(m, target, angle, duration) ==
    [f \in {"startAngle", "endAngle", "initialPoints", "aliased"}
            \cup DOMAIN NewBaseAnimation("rotate", target, duration) |->
        CASE f = "startAngle"    -> 0
          [] f = "endAngle"      -> angle
          [] f = "initialPoints" -> m.points
          [] f = "aliased"       -> TRUE
          [] OTHER               -> NewBaseAnimation("rotate", target, duration)[f]]

NewFadeInAnimation(m, target, duration) ==
    [f \in {"startOpacity", "endOpacity"}
            \cup DOMAIN NewBaseAnimation("fadein", target, duration) |->
        CASE f = "startOpacity" -> 0
          [] f = "endOpacity"   -> Q
          [] OTHER              -> NewBaseAnimation("fadein", target, duration)[f]]

NewFadeOutAnimation(m, target, duration) ==
    [f \in {"startOpacity", "endOpacity"}
            \cup DOMAIN NewBaseAnimation("fadeout", target, duration) |->
        CASE f = "startOpacity" -> m.fillOpacity
          [] f = "endOpacity"   -> 0
          [] OTHER              -> NewBaseAnimation("fadeout", target, duration)[f]]

NewColorAnimation(m, target, endColor, duration) ==
    [f \in {"startColor", "endColor"}
            \cup DOMAIN NewBaseAnimation("color", target, duration) |->
        CASE f = "startColor" -> m.color
          [] f = "endColor"   -> endColor
          [] OTHER            -> NewBaseAnimation("color", target, duration)[f]]

NewPathAnimation(m, target, pathPoints, duration) ==
    [f \in {"pathPoints"} \cup DOMAIN NewBaseAnimation("path", target, duration) |->
        CASE f = "pathPoints" -> pathPoints
          [] OTHER            -> NewBaseAnimation("path", target, duration)[f]]

NewElasticAnimation(m, target, property, endValue, duration) ==
    [f \in {"startValue", "endValue", "amplitude", "period", "property"}
            \cup DOMAIN NewBaseAnimation("elastic", target, duration) |->
        CASE f = "startValue" ->
                (CASE property = "scale"   -> Q
                   [] property = "opacity" -> m.fillOpacity
                   [] property = "x"       -> GetCenter(m).X
                   [] property = "y"       -> GetCenter(m).Y
                   [] OTHER                -> 0)
          [] f = "endValue"   -> endValue
          [] f = "amplitude"  -> Q
          [] f = "period"     -> (3 * Q) \div 10
          [] f = "property"   -> property
          [] OTHER            -> NewBaseAnimation("elastic", target, duration)[f]]

NewBouncingBallAnimation(m, target, duration) ==
    [f \in {"initialPos", "velocity", "gravity", "elasticity", "groundLevel"}
            \cup DOMAIN NewBaseAnimation("bounce", target, duration) |->
        CASE f = "initialPos"  -> GetCenter(m)
          [] f = "velocity"    -> Vec(0, 0)
          [] f = "gravity"     -> -((98 * Q) \div 10)
          [] f = "elasticity"  -> (8 * Q) \div 10
          [] f = "groundLevel" -> -((45 * Q) \div 10)
          [] OTHER             -> NewBaseAnimation("bounce", target, duration)[f]]

\* Scene.Wait's WaitAnimation: a BaseAnimation with a nil target
NewWaitAnimation(duration) == NewBaseAnimation("wait", "", duration)

RECURSIVE MaxDuration(_, _)
MaxDuration(animations, i) ==
    IF i = 0 THEN 0
    ELSE LET d == MaxDuration(animations, i - 1)
         IN  IF animations[i].duration > d THEN animations[i].duration ELSE d

NewAnimationGroup(animations) ==
    [kind |-> "group", animations |-> animations,
     duration |-> MaxDuration(animations, Len(animations))]

RECURSIVE AllFinished(_, _)
AllFinished(animations, i) ==
    IF i = 0 THEN TRUE
    ELSE IF ~animations[i].finished THEN FALSE
    ELSE AllFinished(animations, i - 1)

IsFinished(a) ==
    IF a.kind = "group" THEN AllFinished(a.animations, Len(a.animations))
    ELSE a.finished

\* math.Sqrt of a non-negative integer, rounded down (Newton's iteration)
RECURSIVE SqrtIter(_, _)
SqrtIter(n, x) ==
    LET y == (x + n \div x) \div 2
    IN  IF y >= x THEN x ELSE SqrtIter(n, y)

ISqrt(n) == IF n <= 0 THEN 0 ELSE SqrtIter(n, n)

Distance(v, w) ==
    LET dx == FSub(v.X, w.X)
        dy == FSub(v.Y, w.Y)
    IN  IF IsNaN(dx) \/ IsNaN(dy) THEN NaN ELSE ISqrt(dx * dx + dy * dy)

RECURSIVE PathLength(_, _)
PathLength(pathPoints, i) ==
    IF i = 0 THEN 0
    ELSE FAdd(PathLength(pathPoints, i - 1), Distance(pathPoints[i], pathPoints[i + 1]))

\* the segment loop of getPositionOnPath, from segment i with currentDistance
RECURSIVE WalkPath(_, _, _, _)
WalkPath(pathPoints, targetDistance, i, currentDistance) ==
    IF i > Len(pathPoints) - 1 THEN pathPoints[Len(pathPoints)]
    ELSE LET length == Distance(pathPoints[i], pathPoints[i + 1])
         IN  IF FGe(FAdd(currentDistance, length), targetDistance)
             THEN LET segmentProgress == FDiv(FSub(targetDistance, currentDistance), length)
                  IN  Vec(Interpolate(pathPoints[i].X, pathPoints[i + 1].X, segmentProgress),
                          Interpolate(pathPoints[i].Y, pathPoints[i + 1].Y, segmentProgress))
             ELSE WalkPath(pathPoints, targetDistance, i + 1, FAdd(currentDistance, length))

getPositionOnPath(pathPoints, progress) ==
    IF Len(pathPoints) = 0 THEN Vec(0, 0)
    ELSE IF Len(pathPoints) = 1 THEN pathPoints[1]
    ELSE LET totalLength == PathLength(pathPoints, Len(pathPoints) - 1)
         IN  IF totalLength = 0 THEN pathPoints[1]
             ELSE WalkPath(pathPoints, FMul(progress, totalLength), 1, 0)

\* uint8(v) of a float64: the integer part when it is representable, and an
\* implementation-dependent byte (any) otherwise
ToUint8(v, any) ==
    IF IsNaN(v) \/ v < 0 \/ v >= 256 * Q THEN any ELSE v \div Q

\* the points a Scale/Rotate animation restores before transforming
SnapshotOf(a, m) == IF a.aliased THEN m.points ELSE a.initialPoints

\* progress as the common prologue of Update leaves it
Clamped(progress) == IF FGe(progress, Q) THEN Q ELSE progress

\* The body of Update for each kind.  p is the clamped progress, e the eased
\* progress and t the parameter the animation's Interpolator blends with.
\* env.dt is the wall-clock time since the previous update (seconds), env.any
\* the byte an unrepresentable uint8 conversion produces.
UpdateKind(a, m, progress, env, p, e, t) ==
    CASE a.kind = "move" ->
           [a |-> [a EXCEPT !.finished = @ \/ FGe(progress, Q), !.progress = p],
            m |-> MoveTo(m, LerpVector2(a.startPos, a.endPos, t))]
      [] a.kind = "scale" ->
           [a |-> [a EXCEPT !.finished = @ \/ FGe(progress, Q), !.progress = p,
                            !.initialPoints = SnapshotOf(a, m), !.aliased = FALSE],
            m |-> Scale(SetPoints(m, SnapshotOf(a, m)),
                        Interpolate(a.startScale, a.endScale, t))]
      [] a.kind = "rotate" ->
           [a |-> [a EXCEPT !.finished = @ \/ FGe(progress, Q), !.progress = p,
                            !.initialPoints = SnapshotOf(a, m), !.aliased = FALSE],
            m |-> Rotate(SetPoints(m, SnapshotOf(a, m)),
                         Interpolate(a.startAngle, a.endAngle, t))]
      [] a.kind \in {"fadein", "fadeout"} ->
           [a |-> [a EXCEPT !.finished = @ \/ FGe(progress, Q), !.progress = p],
            m |-> SetFillOpacity(m, Interpolate(a.startOpacity, a.endOpacity, t))]
      [] a.kind = "color" ->
           [a |-> [a EXCEPT !.finished = @ \/ FGe(progress, Q), !.progress = p],
            m |-> SetColor(m,
                    RGBA(ToUint8(Interpolate(a.startColor.R * Q, a.endColor.R * Q, t), env.any),
                         ToUint8(Interpolate(a.startColor.G * Q, a.endColor.G * Q, t), env.any),
                         ToUint8(Interpolate(a.startColor.B * Q, a.endColor.B * Q, t), env.any),
                         ToUint8(Interpolate(a.startColor.A * Q, a.endColor.A * Q, t), env.any)))]
      [] a.kind = "path" ->
           [a |-> [a EXCEPT !.finished = @ \/ FGe(progress, Q), !.progress = p],
            m |-> MoveTo(m, LerpVector2(getPositionOnPath(a.pathPoints, 0),
                                        getPositionOnPath(a.pathPoints, e), t))]
      [] a.kind = "elastic" ->
           [a |-> [a EXCEPT !.finished = @ \/ FGe(progress, Q), !.progress = p],
            m |-> CASE a.property = "scale" ->
                         Scale(SetPoints(m, m.points), Interpolate(a.startValue, a.endValue, t))
                    [] a.property = "opacity" ->
                         SetFillOpacity(m, Interpolate(a.startValue, a.endValue, t))
                    [] a.property = "x" ->
                         MoveTo(m, Vec(Interpolate(a.startValue, a.endValue, t), GetCenter(m).Y))
                    [] a.property = "y" ->
                         MoveTo(m, Vec(GetCenter(m).X, Interpolate(a.startValue, a.endValue, t)))
                    [] OTHER -> m]
      [] a.kind = "bounce" ->
           LET vy0    == FAdd(a.velocity.Y, FMul(a.gravity, env.dt))
               moved  == Vec(FAdd(GetCenter(m).X, FMul(a.velocity.X, env.dt)),
                             FAdd(GetCenter(m).Y, FMul(vy0, env.dt)))
               hit    == FLe(moved.Y, a.groundLevel)
               vy1    == IF hit THEN FMul(-vy0, a.elasticity) ELSE vy0
               stop   == hit /\ FLt(Abs(vy1), Q \div 10)
               newPos == IF hit THEN Vec(moved.X, a.groundLevel) ELSE moved
           IN  [a |-> [a EXCEPT !.velocity = Vec(a.velocity.X, IF stop THEN 0 ELSE vy1),
                                !.finished = a.finished \/ stop \/ FGe(progress, Q),
                                !.progress = progress],
                m |-> MoveTo(m, LerpVector2(GetCenter(m), newPos, t))]
      [] OTHER ->
           \* WaitAnimation
           [a |-> [a EXCEPT !.finished = @ \/ FGe(progress, Q)], m |-> m]

\* what the animation hands to its Interpolator: the eased progress, the
\* elastic easing of the progress (ElasticAnimation), or 1.0 (PathAnimation and
\* BouncingBallAnimation blend from the old position to the new one)
Eased(a, p) ==
    CASE a.kind \in {"path", "bounce"} -> Q
      [] a.kind = "elastic"            -> elasticEaseOut(p, a.amplitude, a.period)
      [] OTHER                         -> ApplyEasing(a.easingFunc, p)

\* Update of a single-target animation a on its target m
Update(a, m, progress, env) ==
    UpdateKind(a, m, progress, env, Clamped(progress),
               ApplyEasing(a.easingFunc, Clamped(progress)),
               InterpEase(a.interpolation, Eased(a, Clamped(progress))))

\* does Update of a replace its target's point slice (SetPoints)?
ReplacesPoints(a) ==
    a.kind \in {"scale", "rotate"} \/ (a.kind = "elastic" /\ a.property = "scale")

\* a sibling whose snapshot still shares the slice that is being replaced
\* keeps the contents that slice had
Freeze(b, target, points) ==
    IF b.kind \in {"scale", "rotate"} /\ b.target = target /\ b.aliased
    THEN [b EXCEPT !.initialPoints = points, !.aliased = FALSE]
    ELSE b

\* the shape Update works on; a WaitAnimation has no target
TargetOf(a, objs) == IF a.kind = "wait" THEN a ELSE objs[a.target]

\* progress * g.duration / child.duration, capped at 1.0
ChildProgress(progress, duration, childDuration) ==
    IF FGt(FDiv(FMul(progress, duration), childDuration), Q) THEN Q
    ELSE FDiv(FMul(progress, duration), childDuration)

\* the result r of child i's Update put back into the group and the table
ChildUpdated(prev, i, child, r) ==
    IF child.kind = "wait"
    THEN [a |-> [prev.a EXCEPT !.animations[i] = r.a], objs |-> prev.objs]
    ELSE [a |-> [prev.a EXCEPT !.animations =
                    [j \in 1..Len(prev.a.animations) |->
                        IF j = i THEN r.a
                        ELSE IF ReplacesPoints(child)
                             THEN Freeze(prev.a.animations[j], child.target,
                                         prev.objs[child.target].points)
                        ELSE prev.a.animations[j]]],
          objs |-> [prev.objs EXCEPT ![child.target] = r.m]]

\* AnimationGroup.Update: children 1..i updated in order
RECURSIVE GroupUpdate(_, _, _, _, _)
RECURSIVE GroupChild(_, _, _, _, _)
GroupUpdate(g, objs, progress, env, i) ==
    IF i = 0 THEN [a |-> g, objs |-> objs]
    ELSE GroupChild(GroupUpdate(g, objs, progress, env, i - 1), g, progress, env, i)

\* one iteration of the loop of AnimationGroup.Update
GroupChild(prev, g, progress, env, i) ==
    ChildUpdated(prev, i, prev.a.animations[i],
                 Update(prev.a.animations[i], TargetOf(prev.a.animations[i], prev.objs),
                        ChildProgress(progress, g.duration, prev.a.animations[i].duration),
                        env))

\* the result r of Update put back into the table
Updated(a, objs, r) ==
    [a |-> r.a, objs |-> IF a.kind = "wait" THEN objs ELSE [objs EXCEPT ![a.target] = r.m]]

\* Animation.Update through the interface, on the table objs of shapes
UpdateAnimation(a, objs, progress, env) ==
    IF a.kind = "group" THEN GroupUpdate(a, objs, progress, env, Len(a.animations))
    ELSE Updated(a, objs, Update(a, TargetOf(a, objs), progress, env))

\* ------------------------------------------------------------------------
\* scene: Scene.PlayAnimation
\* ------------------------------------------------------------------------

FPS == 30

\* a frame count rounded to the nearest frame instead of truncated
TotalFramesRounded(duration) == (2 * duration * FPS + Q) \div (2 * Q)

\* int(duration.Seconds() * fps)
TotalFrames(duration) == TDiv(duration * FPS, Q)

\* float64(frame) / float64(totalFrames), capped at 1.0
FrameProgress(frame, totalFrames) ==
    LET progress == FDiv(frame * Q, totalFrames * Q)
    IN  IF FGt(progress, Q) THEN Q ELSE progress

\* the loop state after an iteration whose Update gave r; last tells that the
\* loop condition fails for the next frame
NextFrame(st, r, hasRenderer, last) ==
    [a |-> r.a, objs |-> r.objs,
     renders |-> IF hasRenderer THEN st.renders + 1 ELSE st.renders,
     frame |-> st.frame + 1,
     stop |-> IsFinished(r.a) \/ last]

\* a frame loop that leaves at frame < totalFrames
PlayFrameExclusive(st, totalFrames, hasRenderer, env) ==
    NextFrame(st, UpdateAnimation(st.a, st.objs, FrameProgress(st.frame, totalFrames), env),
              hasRenderer, st.frame + 1 >= totalFrames)

\* one iteration of the frame loop: update, render, test IsFinished
PlayFrame(st, totalFrames, hasRenderer, env) ==
    NextFrame(st, UpdateAnimation(st.a, st.objs, FrameProgress(st.frame, totalFrames), env),
              hasRenderer, st.frame + 1 > totalFrames)

RECURSIVE PlayLoop(_, _, _, _)
PlayLoop(st, totalFrames, hasRenderer, env) ==
    IF st.stop THEN st
    ELSE PlayLoop(PlayFrame(st, totalFrames, hasRenderer, env), totalFrames, hasRenderer, env)

\* the whole of PlayAnimation: Reset, then frames 0..totalFrames until finished
PlayAnimation(a, objs, hasRenderer, env) ==
    PlayLoop([a |-> Reset(a), objs |-> objs, renders |-> 0, frame |-> 0, stop |-> FALSE],
             TotalFrames(a.duration), hasRenderer, env)

\* ------------------------------------------------------------------------
\* interpreter: Lexer.  A script is a sequence of one-character strings.
\* ------------------------------------------------------------------------

\* the byte readChar and peekChar give past the end of the input
NUL == ""

Letters ==
    {"a", "b", "c", "d", "e", "f", "g", "h", "i", "j", "k", "l", "m",
     "n", "o", "p", "q", "r", "s", "t", "u", "v", "w", "x", "y", "z",
     "A", "B", "C", "D", "E", "F", "G", "H", "I", "J", "K", "L", "M",
     "N", "O", "P", "Q", "R", "S", "T", "U", "V", "W", "X", "Y", "Z"}

Digits == {"0", "1", "2", "3", "4", "5", "6", "7", "8", "9"}

isLetter(ch) == ch \in Letters

isDigit(ch) == ch \in Digits

isHexDigit(ch) ==
    isDigit(ch) \/ ch \in {"a", "b", "c", "d", "e", "f", "A", "B", "C", "D", "E", "F"}

\* the keyword table
keywords ==
    (<<"s", "c", "e", "n", "e">> :> "SCENE")
    @@ (<<"c", "r", "e", "a", "t", "e">> :> "CREATE")
    @@ (<<"s", "e", "t">> :> "SET")
    @@ (<<"a", "n", "i", "m", "a", "t", "e">> :> "ANIMATE")
    @@ (<<"r", "e", "n", "d", "e", "r">> :> "RENDER")
    @@ (<<"s", "a", "v", "e">> :> "SAVE")
    @@ (<<"w", "a", "i", "t">> :> "WAIT")
    @@ (<<"l", "o", "o", "p">> :> "LOOP")
    @@ (<<"i", "f">> :> "IF")
    @@ (<<"e", "l", "s", "e">> :> "ELSE")
    @@ (<<"e", "n", "d">> :> "END")
    @@ (<<"c", "i", "r", "c", "l", "e">> :> "CIRCLE")
    @@ (<<"r", "e", "c", "t", "a", "n", "g", "l", "e">> :> "RECT")
    @@ (<<"l", "i", "n", "e">> :> "LINE")
    @@ (<<"a", "r", "r", "o", "w">> :> "ARROW")
    @@ (<<"p", "o", "l", "y", "g", "o", "n">> :> "POLYGON")
    @@ (<<"t", "e", "x", "t">> :> "TEXT")
    @@ (<<"m", "o", "v", "e">> :> "MOVE")
    @@ (<<"s", "c", "a", "l", "e">> :> "SCALE")
    @@ (<<"r", "o", "t", "a", "t", "e">> :> "ROTATE")
    @@ (<<"f", "a", "d", "e", "i", "n">> :> "FADE_IN")
    @@ (<<"f", "a", "d", "e", "o", "u", "t">> :> "FADE_OUT")
    @@ (<<"c", "o", "l", "o", "r">> :> "COLOR_PROP")
    @@ (<<"s", "i", "z", "e">> :> "SIZE_PROP")
    @@ (<<"p", "o", "s", "i", "t", "i", "o", "n">> :> "POSITION_PROP")
    @@ (<<"o", "p", "a", "c", "i", "t", "y">> :> "OPACITY_PROP")
    @@ (<<"w", "i", "d", "t", "h">> :> "WIDTH_PROP")
    @@ (<<"h", "e", "i", "g", "h", "t">> :> "HEIGHT_PROP")

lookupIdent(ident) == IF ident \in DOMAIN keywords THEN keywords[ident] ELSE "IDENT"

\* the token types NextToken gives to single characters
Punctuation ==
    ("=" :> "ASSIGN") @@ ("+" :> "PLUS") @@ ("-" :> "MINUS") @@ ("*" :> "MULTIPLY")
    @@ ("," :> "COMMA") @@ ("(" :> "LPAREN") @@ (")" :> "RPAREN")
    @@ ("{" :> "LBRACE") @@ ("}" :> "RBRACE") @@ ("[" :> "LBRACKET") @@ ("]" :> "RBRACKET")
    @@ ("." :> "DOT") @@ (":" :> "COLON") @@ (";" :> "SEMICOLON")

Token(type, literal, line, column) ==
    [Type |-> type, Literal |-> literal, Line |-> line, Column |-> column]

readChar(l) ==
    LET ch == IF l.readPosition >= Len(l.input) THEN NUL ELSE l.input[l.readPosition + 1]
    IN  [l EXCEPT !.ch = ch,
                  !.position = l.readPosition,
                  !.readPosition = l.readPosition + 1,
                  !.line = IF ch = "\n" THEN l.line + 1 ELSE l.line,
                  !.column = IF ch = "\n" THEN 0 ELSE l.column + 1]

peekChar(l) ==
    IF l.readPosition >= Len(l.input) THEN NUL ELSE l.input[l.readPosition + 1]

NewLexer(input) ==
    readChar([input |-> input, position |-> 0, readPosition |-> 0, ch |-> NUL,
              line |-> 1, column |-> 0])

\* input[from:to] of Go, positions counted from 0
Slice(input, from, to) == SubSeq(input, from + 1, to)

RECURSIVE skipWhitespace(_)
skipWhitespace(l) ==
    IF l.ch \in {" ", "\t", "\r"} THEN skipWhitespace(readChar(l)) ELSE l

RECURSIVE skipComment(_)
skipComment(l) ==
    IF l.ch # "\n" /\ l.ch # NUL THEN skipComment(readChar(l)) ELSE l

\* the scanning loop of readIdentifier
RECURSIVE readIdentifier(_)
readIdentifier(l) ==
    IF isLetter(l.ch) \/ isDigit(l.ch) \/ l.ch = "_" THEN readIdentifier(readChar(l)) ELSE l

\* the scanning loop of readNumber
RECURSIVE readNumber(_, _)
readNumber(l, hasDot) ==
    IF isDigit(l.ch) \/ (l.ch = "." /\ ~hasDot)
    THEN readNumber(readChar(l), hasDot \/ l.ch = ".")
    ELSE l

\* the scanning loop of readString: read on to the closing quote or the end
RECURSIVE readString(_)
readString(l) ==
    LET n == readChar(l)
    IN  IF n.ch = "\"" \/ n.ch = NUL THEN n ELSE readString(n)

\* the scanning loop of readColor
RECURSIVE readColor(_)
readColor(l) ==
    IF isHexDigit(l.ch) \/ l.ch = "#" THEN readColor(readChar(l)) ELSE l

\* Lexer.NextToken: the token and the lexer after it
RECURSIVE NextToken(_)
NextToken(l0) ==
    LET l == skipWhitespace(l0)
    IN  CASE l.ch = "/" /\ peekChar(l) = "/" -> NextToken(skipComment(l))
          [] l.ch = "/" /\ peekChar(l) # "/" ->
                [tok |-> Token("DIVIDE", <<l.ch>>, l.line, l.column), l |-> readChar(l)]
          [] l.ch \in DOMAIN Punctuation ->
                [tok |-> Token(Punctuation[l.ch], <<l.ch>>, l.line, l.column), l |-> readChar(l)]
          [] l.ch = "\n" ->
                [tok |-> Token("NEWLINE", <<"\\", "n">>, l.line, l.column), l |-> readChar(l)]
          [] l.ch = "\"" ->
                LET r == readString(l)
                IN  [tok |-> Token("STRING", Slice(l.input, l.position + 1, r.position),
                                   r.line, r.column),
                     l |-> readChar(r)]
          [] l.ch = "#" ->
                LET r == readColor(l)
                IN  [tok |-> Token("COLOR", Slice(l.input, l.position, r.position),
                                   r.line, r.column),
                     l |-> r]
          [] l.ch = NUL ->
                [tok |-> Token("EOF", <<>>, l.line, l.column), l |-> readChar(l)]
          [] isLetter(l.ch) ->
                LET r == readIdentifier(l)
                    literal == Slice(l.input, l.position, r.position)
                IN  [tok |-> Token(lookupIdent(literal), literal, r.line, r.column), l |-> r]
          [] isDigit(l.ch) ->
                LET r == readNumber(l, FALSE)
                IN  [tok |-> Token("NUMBER", Slice(l.input, l.position, r.position),
                                   r.line, r.column),
                     l |-> r]
          [] OTHER ->
                [tok |-> Token("ILLEGAL", <<l.ch>>, l.line, l.column), l |-> readChar(l)]

\* ------------------------------------------------------------------------
\* interpreter: Parser.  Every parse function gives the parser after it and
\* the node it built (Nil for a nil node).
\* ------------------------------------------------------------------------

Nil == [type |-> "nil"]

\* a parser diagnostic: the line it names, what was expected and the literal met
ParseError(kind, line, expected, got) ==
    [kind |-> kind, line |-> line, expected |-> expected, got |-> got]

\* the tokens successive NextToken calls give, up to the first EOF
RECURSIVE Tokens(_)
RECURSIVE TokensAfter(_)
Tokens(l) == TokensAfter(NextToken(l))

TokensAfter(r) == IF r.tok.Type = "EOF" THEN <<r.tok>> ELSE <<r.tok>> \o Tokens(r.l)

\* the i-th token of the lexer; at the end of the input NextToken goes on
\* giving EOF, one column further each time
TokenAt(tokens, i) ==
    IF i <= Len(tokens) THEN tokens[i]
    ELSE [tokens[Len(tokens)] EXCEPT !.Column = @ + (i - Len(tokens))]

\* p.lexer is kept as the tokens it gives and the number of those taken
nextToken(p) ==
    [p EXCEPT !.curToken = p.peekToken,
              !.peekToken = TokenAt(p.lexer.tokens, p.lexer.taken + 1),
              !.lexer.taken = @ + 1]

NewParser(l) ==
    nextToken(nextToken([lexer |-> [tokens |-> Tokens(l), taken |-> 0], errors |-> <<>>,
                         curToken |-> Token("ILLEGAL", <<>>, 0, 0),
                         peekToken |-> Token("ILLEGAL", <<>>, 0, 0)]))

curTokenIs(p, t) == p.curToken.Type = t

peekTokenIs(p, t) == p.peekToken.Type = t

peekError(p, t) ==
    [p EXCEPT !.errors = Append(@, ParseError("expected", p.peekToken.Line, t,
                                              p.peekToken.Literal))]

noPrefixParseFnError(p, t) ==
    [p EXCEPT !.errors = Append(@, ParseError("no prefix", p.curToken.Line, t, <<>>))]

expectPeek(p, t) ==
    IF peekTokenIs(p, t) THEN [p |-> nextToken(p), ok |-> TRUE]
    ELSE [p |-> peekError(p, t), ok |-> FALSE]

ObjectTypes ==
    {"CIRCLE", "TRIANGLE", "RECT", "LINE", "ARROW", "POLYGON", "TEXT",
     "MARKDOWN", "TEX", "MATHTEX", "COORDINATE_SYSTEM"}

Properties ==
    {"COLOR_PROP", "SIZE_PROP", "POSITION_PROP", "OPACITY_PROP", "WIDTH_PROP",
     "HEIGHT_PROP", "VERTEX_PROP", "VERTICES_PROP"}

AnimationTypes ==
    {"MOVE", "SCALE", "ROTATE", "FADE_IN", "FADE_OUT", "BOUNCE", "COLOR", "PATH", "ELASTIC"}

\* expectPeekObjectType, expectPeekProperty, expectPeekAnimationType
expectPeekOneOf(p, types, what) ==
    IF p.peekToken.Type \in types THEN [p |-> nextToken(p), ok |-> TRUE]
    ELSE [p |-> [p EXCEPT !.errors = Append(@, ParseError("expected", p.peekToken.Line, what,
                                                          p.peekToken.Literal))],
          ok |-> FALSE]

DigitValue ==
    ("0" :> 0) @@ ("1" :> 1) @@ ("2" :> 2) @@ ("3" :> 3) @@ ("4" :> 4)
    @@ ("5" :> 5) @@ ("6" :> 6) @@ ("7" :> 7) @@ ("8" :> 8) @@ ("9" :> 9)

\* the number the decimal digits chars[1..i] write
RECURSIVE Decimal(_, _)
Decimal(chars, i) ==
    IF i = 0 THEN 0 ELSE 10 * Decimal(chars, i - 1) + DigitValue[chars[i]]

RECURSIVE Pow10(_)
Pow10(k) == IF k = 0 THEN 1 ELSE 10 * Pow10(k - 1)

\* strconv.ParseFloat of a literal readNumber scanned: digits, then possibly
\* a point and digits
ParseFloat(literal) ==
    LET dots == {i \in 1..Len(literal) : literal[i] = "."}
        dot  == IF dots = {} THEN Len(literal) + 1 ELSE CHOOSE i \in dots : TRUE
        frac == SubSeq(literal, dot + 1, Len(literal))
    IN  Decimal(literal, dot - 1) * Q + (Decimal(frac, Len(frac)) * Q) \div Pow10(Len(frac))

parseNumberLiteral(p) ==
    [p |-> p, node |-> [type |-> "NumberLiteral", Token |-> p.curToken,
                        Value |-> ParseFloat(p.curToken.Literal)]]

parseStringLiteral(p) ==
    [p |-> p, node |-> [type |-> "StringLiteral", Token |-> p.curToken,
                        Value |-> p.curToken.Literal]]

AppendNode(nodes, node) == IF node = Nil THEN nodes ELSE Append(nodes, node)

\* the element of a one-element set: Only({e(x) : x \in {v}}) is e of v,
\* with v worked out once
Only(S) == CHOOSE x \in S : TRUE

RECURSIVE parseExpression(_)
RECURSIVE parseCoordinateExpression(_)
RECURSIVE parseExpressionList(_, _)
RECURSIVE parseExpressionListRest(_, _)
RECURSIVE parseStatement(_)
RECURSIVE parseLoopBody(_, _)

parseExpression(p) ==
    CASE p.curToken.Type = "IDENT" ->
            [p |-> p, node |-> [type |-> "Identifier", Token |-> p.curToken,
                                Value |-> p.curToken.Literal]]
      [] p.curToken.Type = "NUMBER" -> parseNumberLiteral(p)
      [] p.curToken.Type = "STRING" -> parseStringLiteral(p)
      [] p.curToken.Type = "COLOR" ->
            [p |-> p, node |-> [type |-> "ColorLiteral", Token |-> p.curToken,
                                Value |-> p.curToken.Literal]]
      [] p.curToken.Type = "LPAREN" -> parseCoordinateExpression(p)
      [] p.curToken.Type = "LBRACKET" ->
            \* parseArrayExpression
            Only({ [p |-> r.p, node |-> [type |-> "ArrayExpression", Token |-> p.curToken,
                                         Elements |-> r.list]]
                   : r \in {parseExpressionList(p, "RBRACKET")} })
      [] OTHER -> [p |-> noPrefixParseFnError(p, p.curToken.Type), node |-> Nil]

\* parseCoordinateExpression after its x: ", y )"
coordinateAfterX(x, e1) ==
    IF ~e1.ok THEN [p |-> e1.p, node |-> Nil]
    ELSE Only({ Only({ IF ~e2.ok THEN [p |-> e2.p, node |-> Nil]
                       ELSE [p |-> e2.p,
                             node |-> [type |-> "CoordinateExpression",
                                       X |-> x.node, Y |-> y.node]]
                       : e2 \in {expectPeek(y.p, "RPAREN")} })
                : y \in {parseExpression(nextToken(e1.p))} })

parseCoordinateExpression(p) ==
    Only({ coordinateAfterX(x, expectPeek(x.p, "COMMA"))
           : x \in {parseExpression(nextToken(p))} })

\* the loop of parseExpressionList over ", expression"
parseExpressionListRest(p, args) ==
    IF peekTokenIs(p, "COMMA")
    THEN Only({ parseExpressionListRest(r.p, Append(args, r.node))
                : r \in {parseExpression(nextToken(nextToken(p)))} })
    ELSE [p |-> p, list |-> args]

parseExpressionList(p, end) ==
    IF peekTokenIs(p, end) THEN [p |-> nextToken(p), list |-> <<>>]
    ELSE Only({ Only({ IF ~e.ok THEN [p |-> e.p, list |-> <<>>]
                       ELSE [p |-> e.p, list |-> rest.list]
                       : e \in {expectPeek(rest.p, end)} })
                : rest \in { Only({ parseExpressionListRest(first.p, <<first.node>>)
                                    : first \in {parseExpression(nextToken(p))} }) } })

\* parseSceneStatement after the width and the height: the name
sceneName(p, width, height, e3) ==
    IF ~e3.ok THEN [p |-> e3.p, node |-> Nil]
    ELSE [p |-> e3.p,
          node |-> [type |-> "SceneStatement", Token |-> p.curToken,
                    Width |-> width.node, Height |-> height.node,
                    Name |-> parseStringLiteral(e3.p).node]]

\* parseSceneStatement after the width: the height
sceneHeight(p, width, e2) ==
    IF ~e2.ok THEN [p |-> e2.p, node |-> Nil]
    ELSE Only({ sceneName(p, width, height, expectPeek(height.p, "STRING"))
                : height \in {parseNumberLiteral(e2.p)} })

parseSceneStatement(p) ==
    Only({ IF ~e1.ok THEN [p |-> e1.p, node |-> Nil]
           ELSE Only({ sceneHeight(p, width, expectPeek(width.p, "NUMBER"))
                       : width \in {parseNumberLiteral(e1.p)} })
           : e1 \in {expectPeek(p, "NUMBER")} })

\* the tokens that end the unparenthesised parameters of a create statement
CreateStops ==
    {"LPAREN", "EOF", "NEWLINE", "CREATE", "SET", "ANIMATE", "RENDER", "SAVE", "EXPORT",
     "VIDEO", "WAIT", "LOOP"}

\* first loop of parseCreateStatement: the parameters outside parentheses
RECURSIVE createParameters(_, _)
createParameters(p, parameters) ==
    IF p.peekToken.Type \notin CreateStops
    THEN Only({ createParameters(r.p, AppendNode(parameters, r.node))
                : r \in {parseExpression(nextToken(p))} })
    ELSE [p |-> p, list |-> parameters]

\* second loop of parseCreateStatement, and the default case of
\* parseAnimateStatement: the parenthesised parameters
RECURSIVE coordinateParameters(_, _)
coordinateParameters(p, parameters) ==
    IF peekTokenIs(p, "LPAREN")
    THEN Only({ coordinateParameters(r.p, AppendNode(parameters, r.node))
                : r \in {parseExpression(nextToken(p))} })
    ELSE [p |-> p, list |-> parameters]

\* parseCreateStatement after the object type e1 and the name e2
createAfterName(p, e1, e2) ==
    IF ~e2.ok THEN [p |-> e2.p, node |-> Nil]
    ELSE Only({ [p |-> coords.p,
                 node |-> [type |-> "CreateStatement", Token |-> p.curToken,
                           ObjectType |-> e1.p.curToken,
                           Name |-> e2.p.curToken.Literal,
                           Parameters |-> coords.list]]
                : coords \in { Only({ coordinateParameters(outer.p, outer.list)
                                      : outer \in {createParameters(e2.p, <<>>)} }) } })

parseCreateStatement(p) ==
    Only({ IF ~e1.ok THEN [p |-> e1.p, node |-> Nil]
           ELSE createAfterName(p, e1, expectPeek(e1.p, "IDENT"))
           : e1 \in {expectPeekOneOf(p, ObjectTypes, "object type")} })

\* parseSetStatement after the object e1, the dot and the property e3: "= value"
setValue(p, e1, e3, e4) ==
    IF ~e4.ok THEN [p |-> e4.p, node |-> Nil]
    ELSE Only({ [p |-> value.p,
                 node |-> [type |-> "SetStatement", Token |-> p.curToken,
                           Object |-> e1.p.curToken.Literal,
                           Property |-> e3.p.curToken,
                           Value |-> value.node]]
                : value \in {parseExpression(nextToken(e4.p))} })

\* parseSetStatement after the object e1 and the dot e2: the property
setProperty(p, e1, e2) ==
    IF ~e2.ok THEN [p |-> e2.p, node |-> Nil]
    ELSE Only({ IF ~e3.ok THEN [p |-> e3.p, node |-> Nil]
                ELSE setValue(p, e1, e3, expectPeek(e3.p, "ASSIGN"))
                : e3 \in {expectPeekOneOf(e2.p, Properties, "property")} })

parseSetStatement(p) ==
    Only({ IF ~e1.ok THEN [p |-> e1.p, node |-> Nil]
           ELSE setProperty(p, e1, expectPeek(e1.p, "DOT"))
           : e1 \in {expectPeek(p, "IDENT")} })

\* one parameter of an animate statement, read when the next token is of one
\* of the types
parameterIf(r, types) ==
    IF r.p.peekToken.Type \in types
    THEN Only({ [p |-> e.p, list |-> AppendNode(r.list, e.node)]
                : e \in {parseExpression(nextToken(r.p))} })
    ELSE r

\* the parameters of an animate statement: a string for COLOR, an array for
\* PATH, a string and a number for ELASTIC, coordinates for the other types
animateParameters(p, type) ==
    CASE type = "COLOR" -> parameterIf([p |-> p, list |-> <<>>], {"STRING"})
      [] type = "PATH" -> parameterIf([p |-> p, list |-> <<>>], {"LBRACKET"})
      [] type = "ELASTIC" ->
            parameterIf(parameterIf([p |-> p, list |-> <<>>], {"STRING"}), {"MINUS", "NUMBER"})
      [] OTHER -> coordinateParameters(p, <<>>)

\* parseAnimateStatement after its parameters: the duration
animateDuration(p, e1, e2, params, e3) ==
    IF ~e3.ok THEN [p |-> e3.p, node |-> Nil]
    ELSE [p |-> e3.p,
          node |-> [type |-> "AnimateStatement", Token |-> p.curToken,
                    Animation |-> e1.p.curToken,
                    Object |-> e2.p.curToken.Literal,
                    Parameters |-> params.list,
                    Duration |-> parseNumberLiteral(e3.p).node]]

\* parseAnimateStatement after the animation type e1 and the object e2
animateAfterObject(p, e1, e2) ==
    IF ~e2.ok THEN [p |-> e2.p, node |-> Nil]
    ELSE Only({ animateDuration(p, e1, e2, params, expectPeek(params.p, "NUMBER"))
                : params \in {animateParameters(e2.p, e1.p.curToken.Type)} })

parseAnimateStatement(p) ==
    Only({ IF ~e1.ok THEN [p |-> e1.p, node |-> Nil]
           ELSE animateAfterObject(p, e1, expectPeek(e1.p, "IDENT"))
           : e1 \in {expectPeekOneOf(p, AnimationTypes, "animation type")} })

parseRenderStatement(p) ==
    [p |-> p, node |-> [type |-> "RenderStatement", Token |-> p.curToken]]

parseSaveStatement(p) ==
    Only({ IF ~e1.ok THEN [p |-> e1.p, node |-> Nil]
           ELSE [p |-> e1.p, node |-> [type |-> "SaveStatement", Token |-> p.curToken,
                                       Filename |-> parseStringLiteral(e1.p).node]]
           : e1 \in {expectPeek(p, "STRING")} })

parseWaitStatement(p) ==
    Only({ IF ~e1.ok THEN [p |-> e1.p, node |-> Nil]
           ELSE [p |-> e1.p, node |-> [type |-> "WaitStatement", Token |-> p.curToken,
                                       Duration |-> parseNumberLiteral(e1.p).node]]
           : e1 \in {expectPeek(p, "NUMBER")} })

\* the statement loop of parseLoopStatement, up to "}" or the end of input
parseLoopBody(p, statements) ==
    IF curTokenIs(p, "RBRACE") \/ curTokenIs(p, "EOF") THEN [p |-> p, list |-> statements]
    ELSE IF curTokenIs(p, "NEWLINE") THEN parseLoopBody(nextToken(p), statements)
    ELSE Only({ parseLoopBody(nextToken(s.p), AppendNode(statements, s.node))
                : s \in {parseStatement(p)} })

\* parseLoopStatement after the count: "{ body"
loopBody(p, count, e2) ==
    IF ~e2.ok THEN [p |-> e2.p, node |-> Nil]
    ELSE Only({ [p |-> body.p,
                 node |-> [type |-> "LoopStatement", Token |-> p.curToken,
                           Count |-> count.node, Statements |-> body.list]]
                : body \in {parseLoopBody(nextToken(e2.p), <<>>)} })

parseLoopStatement(p) ==
    Only({ IF ~e1.ok THEN [p |-> e1.p, node |-> Nil]
           ELSE Only({ loopBody(p, count, expectPeek(count.p, "LBRACE"))
                       : count \in {parseNumberLiteral(e1.p)} })
           : e1 \in {expectPeek(p, "NUMBER")} })

parseStatement(p) ==
    CASE p.curToken.Type = "SCENE"   -> parseSceneStatement(p)
      [] p.curToken.Type = "CREATE"  -> parseCreateStatement(p)
      [] p.curToken.Type = "SET"     -> parseSetStatement(p)
      [] p.curToken.Type = "ANIMATE" -> parseAnimateStatement(p)
      [] p.curToken.Type = "RENDER"  -> parseRenderStatement(p)
      [] p.curToken.Type = "SAVE"    -> parseSaveStatement(p)
      [] p.curToken.Type = "WAIT"    -> parseWaitStatement(p)
      [] p.curToken.Type = "LOOP"    -> parseLoopStatement(p)
      [] OTHER -> [p |-> noPrefixParseFnError(p, p.curToken.Type), node |-> Nil]

\* the statement loop of ParseProgram
RECURSIVE ParseStatements(_, _)
ParseStatements(p, statements) ==
    IF curTokenIs(p, "EOF") THEN [p |-> p, list |-> statements]
    ELSE IF curTokenIs(p, "NEWLINE") THEN ParseStatements(nextToken(p), statements)
    ELSE Only({ ParseStatements(nextToken(stmt.p), AppendNode(statements, stmt.node))
                : stmt \in {parseStatement(p)} })

\* Parser.ParseProgram: the Program's statements and the parser's diagnostics
ParseProgram(p) ==
    Only({ [Statements |-> r.list, errors |-> r.p.errors] : r \in {ParseStatements(p, <<>>)} })

\* ------------------------------------------------------------------------
\* interpreter: Evaluator.  M is the Evaluator with the shapes it points to:
\* scene, objects, errors, projectName, currentLine are its fields, heap the
\* shapes, saved the frames written, and ran and played record what the
\* current Evaluate call has executed.
\* ------------------------------------------------------------------------

\* an error that drops its argument
ErrorfWithoutArgument(msg, name) ==
    [located |-> FALSE, line |-> 0, msg |-> msg, name |-> <<>>, cause |-> ""]

\* an error built by fmt.Errorf; msg is the format (the source's Chinese
\* formats are written in English) and name the %s argument
Errorf(msg, name) ==
    [located |-> FALSE, line |-> 0, msg |-> msg, name |-> name, cause |-> ""]

\* an error built by Evaluator.newError: it names the current line
newError(M, msg, name, cause) ==
    [located |-> TRUE, line |-> M.currentLine, msg |-> msg, name |-> name, cause |-> cause]

Done(M) == [e |-> M, err |-> Nil, panic |-> FALSE]

Fail(M, err) == [e |-> M, err |-> err, panic |-> FALSE]

\* a failed type assertion: a run-time panic nothing recovers
Panic(M) == [e |-> M, err |-> Nil, panic |-> TRUE]

evalExpression(expr) ==
    CASE expr.type = "Identifier"    -> [t |-> "string", v |-> expr.Value, err |-> FALSE]
      [] expr.type = "NumberLiteral" -> [t |-> "float64", v |-> expr.Value, err |-> FALSE]
      [] expr.type = "StringLiteral" -> [t |-> "string", v |-> expr.Value, err |-> FALSE]
      [] expr.type = "ColorLiteral"  -> [t |-> "string", v |-> expr.Value, err |-> FALSE]
      [] expr.type = "CoordinateExpression" -> [t |-> "coordinate", v |-> expr, err |-> FALSE]
      [] expr.type = "ArrayExpression" -> [t |-> "array", v |-> expr, err |-> FALSE]
      [] OTHER -> [t |-> "nil", v |-> Nil, err |-> TRUE]

IsFloat(val) == val.t = "float64"

\* the two evaluations of a coordinate's members and their unchecked
\* conversions to float64
Coordinate(coord) ==
    LET x == evalExpression(coord.X)
        y == evalExpression(coord.Y)
    IN  IF x.err \/ y.err THEN [status |-> "error", pos |-> Vec(0, 0)]
        ELSE IF ~IsFloat(x) \/ ~IsFloat(y) THEN [status |-> "panic", pos |-> Vec(0, 0)]
        ELSE [status |-> "ok", pos |-> Vec(x.v, y.v)]

\* Scene.Add, Scene.render.  A scene carries its CanvasRenderer: frames
\* counts the render calls, autoSaveProjectName is the renderer's field and
\* autoSaved the SaveFrame calls its Present has made, each one writing
\* output/<name>/frames/<name>.png
NewScene(w, h) ==
    [width |-> w, height |-> h, objects |-> <<>>, frames |-> 0,
     autoSaveProjectName |-> <<>>, autoSaved |-> 0]

SceneAdd(sc, id) == [sc EXCEPT !.objects = Append(@, id)]

\* CanvasRenderer.Present, n times: a SaveFrame each time when a project
\* name is set
Present(sc, n) ==
    IF sc.autoSaveProjectName # <<>> THEN [sc EXCEPT !.autoSaved = @ + n] ELSE sc

SceneRender(sc) == Present([sc EXCEPT !.frames = @ + 1], 1)

Put(map, k, v) == [n \in DOMAIN map \cup {k} |-> IF n = k THEN v ELSE map[n]]

\* defaults.Colors, by the names setColor matches
NamedColors ==
    (<<"b", "l", "a", "c", "k">> :> RGBA(0, 0, 0, 255))
    @@ (<<"w", "h", "i", "t", "e">> :> RGBA(255, 255, 255, 255))
    @@ (<<"r", "e", "d">> :> RGBA(255, 0, 0, 255))
    @@ (<<"g", "r", "e", "e", "n">> :> RGBA(0, 255, 0, 255))
    @@ (<<"b", "l", "u", "e">> :> RGBA(0, 0, 255, 255))
    @@ (<<"y", "e", "l", "l", "o", "w">> :> RGBA(255, 255, 0, 255))
    @@ (<<"c", "y", "a", "n">> :> RGBA(0, 255, 255, 255))
    @@ (<<"m", "a", "g", "e", "n", "t", "a">> :> RGBA(255, 0, 255, 255))
    @@ (<<"p", "r", "i", "m", "a", "r", "y">> :> RGBA(33, 150, 243, 255))
    @@ (<<"s", "e", "c", "o", "n", "d", "a", "r", "y">> :> RGBA(255, 152, 0, 255))
    @@ (<<"a", "c", "c", "e", "n", "t">> :> RGBA(255, 87, 34, 255))
    @@ (<<"b", "a", "c", "k", "g", "r", "o", "u", "n", "d">> :> RGBA(250, 250, 250, 255))
    @@ (<<"s", "u", "r", "f", "a", "c", "e">> :> RGBA(255, 255, 255, 255))
    @@ (<<"e", "r", "r", "o", "r">> :> RGBA(244, 67, 54, 255))
    @@ (<<"s", "u", "c", "c", "e", "s", "s">> :> RGBA(76, 175, 80, 255))
    @@ (<<"w", "a", "r", "n", "i", "n", "g">> :> RGBA(255, 193, 7, 255))
    @@ (<<"i", "n", "f", "o">> :> RGBA(33, 150, 243, 255))
    @@ (<<"m", "u", "t", "e", "d">> :> RGBA(158, 158, 158, 255))
    @@ (<<"m", "a", "t", "h", "r", "e", "d">> :> RGBA(231, 76, 60, 255))
    @@ (<<"m", "a", "t", "h", "b", "l", "u", "e">> :> RGBA(52, 152, 219, 255))
    @@ (<<"m", "a", "t", "h", "g", "r", "e", "e", "n">> :> RGBA(39, 174, 96, 255))
    @@ (<<"m", "a", "t", "h", "o", "r", "a", "n", "g", "e">> :> RGBA(243, 156, 18, 255))
    @@ (<<"m", "a", "t", "h", "p", "u", "r", "p", "l", "e">> :> RGBA(142, 68, 173, 255))

\* the older predefined colours of package colors, as their hex strings
LegacyColors ==
    (<<"d", "e", "e", "p", "b", "l", "u", "e">> :> <<"#", "0", "5", "1", "B", "4", "A">>)
    @@ (<<"m", "i", "d", "b", "l", "u", "e">> :> <<"#", "2", "7", "4", "2", "7", "4">>)
    @@ (<<"p", "u", "r", "p", "l", "e", "b", "l", "u", "e">> :> <<"#", "5", "7", "6", "D", "A", "2">>)
    @@ (<<"c", "y", "a", "n", "b", "l", "u", "e">> :> <<"#", "2", "B", "5", "7", "6", "E">>)
    @@ (<<"d", "a", "r", "k", "c", "o", "l", "o", "r">> :> <<"#", "0", "4", "1", "2", "2", "9">>)
    @@ (<<"l", "i", "g", "h", "t", "p", "u", "r", "p", "l", "e">> :> <<"#", "9", "B", "A", "2", "C", "2">>)

LowerCase ==
    ("A" :> "a") @@ ("B" :> "b") @@ ("C" :> "c") @@ ("D" :> "d") @@ ("E" :> "e") @@ ("F" :> "f")
    @@ ("G" :> "g") @@ ("H" :> "h") @@ ("I" :> "i") @@ ("J" :> "j") @@ ("K" :> "k") @@ ("L" :> "l")
    @@ ("M" :> "m") @@ ("N" :> "n") @@ ("O" :> "o") @@ ("P" :> "p") @@ ("Q" :> "q") @@ ("R" :> "r")
    @@ ("S" :> "s") @@ ("T" :> "t") @@ ("U" :> "u") @@ ("V" :> "v") @@ ("W" :> "w") @@ ("X" :> "x")
    @@ ("Y" :> "y") @@ ("Z" :> "z")

\* strings.ToLower
ToLower(s) == [i \in 1..Len(s) |-> IF s[i] \in DOMAIN LowerCase THEN LowerCase[s[i]] ELSE s[i]]

hexDigitToValue(c) ==
    LET l == IF c \in DOMAIN LowerCase THEN LowerCase[c] ELSE c
    IN  CASE l \in Digits -> DigitValue[l]
          [] l = "a" -> 10
          [] l = "b" -> 11
          [] l = "c" -> 12
          [] l = "d" -> 13
          [] l = "e" -> 14
          [] l = "f" -> 15
          [] OTHER -> 0

hexToByte(hex) ==
    IF Len(hex) # 2 THEN 0 ELSE (hexDigitToValue(hex[1]) * 16 + hexDigitToValue(hex[2])) % 256

HexToRGBA(hex) ==
    IF Len(hex) # 7 \/ hex[1] # "#" THEN RGBA(255, 255, 255, 255)
    ELSE RGBA(hexToByte(SubSeq(hex, 2, 3)), hexToByte(SubSeq(hex, 4, 5)),
              hexToByte(SubSeq(hex, 6, 7)), 255)

evalSceneStatement(M, stmt) ==
    LET width  == evalExpression(stmt.Width)
        height == evalExpression(stmt.Height)
        name   == evalExpression(stmt.Name)
        w      == TDiv(width.v, Q)
        h      == TDiv(height.v, Q)
    IN  Done([M EXCEPT !.projectName = name.v,
                       !.scene = [NewScene(IF w <= 0 THEN 1920 ELSE w,
                                           IF h <= 0 THEN 1080 ELSE h)
                                  EXCEPT !.autoSaveProjectName = name.v]])

\* createCircle: the shape, or an error message, or a panic
createCircle(stmt) ==
    LET P == stmt.Parameters
        none == NewCircle(Q)
        made(radius, place) ==
            IF radius <= 0
            THEN [status |-> "error", msg |-> "circle radius must be greater than 0", obj |-> none]
            ELSE [status |-> "ok", msg |-> "",
                  obj |-> IF place.status = "ok" THEN MoveTo(NewCircle(radius), place.pos)
                          ELSE NewCircle(radius)]
    IN  IF Len(P) < 1
        THEN [status |-> "error", msg |-> "creating a circle needs a radius parameter", obj |-> none]
        ELSE IF P[1].type = "CoordinateExpression"
        THEN IF Len(P) < 2
             THEN [status |-> "error", msg |-> "a radius is needed after the position", obj |-> none]
             ELSE LET place == Coordinate(P[1])
                      radiusVal == evalExpression(P[2])
                  IN  IF place.status # "ok"
                      THEN [status |-> place.status, msg |-> "unknown expression type", obj |-> none]
                      ELSE IF radiusVal.err
                      THEN [status |-> "error", msg |-> "parsing the circle radius failed", obj |-> none]
                      ELSE IF ~IsFloat(radiusVal)
                      THEN [status |-> "error", msg |-> "circle radius must be a number", obj |-> none]
                      ELSE made(radiusVal.v, place)
        ELSE LET radiusVal == evalExpression(P[1])
                 place == IF Len(P) >= 2 /\ P[2].type = "CoordinateExpression"
                          THEN Coordinate(P[2])
                          ELSE [status |-> "none", pos |-> Vec(0, 0)]
             IN  IF radiusVal.err
                 THEN [status |-> "error", msg |-> "parsing the circle radius failed", obj |-> none]
                 ELSE IF ~IsFloat(radiusVal)
                 THEN [status |-> "error", msg |-> "circle radius must be a number", obj |-> none]
                 ELSE IF place.status \in {"error", "panic"}
                 THEN [status |-> place.status, msg |-> "unknown expression type", obj |-> none]
                 ELSE made(radiusVal.v, place)

createRectangle(stmt) ==
    LET P == stmt.Parameters
        none == NewCircle(Q)
    IN  IF Len(P) < 2
        THEN [status |-> "error", msg |-> "rectangle requires width and height parameters",
              obj |-> none]
        ELSE LET widthVal  == evalExpression(P[1])
                 heightVal == evalExpression(P[2])
                 place == IF Len(P) >= 3 /\ P[3].type = "CoordinateExpression"
                          THEN Coordinate(P[3])
                          ELSE [status |-> "none", pos |-> Vec(0, 0)]
             IN  IF widthVal.err \/ heightVal.err
                 THEN [status |-> "error", msg |-> "unknown expression type", obj |-> none]
                 ELSE IF ~IsFloat(widthVal) \/ ~IsFloat(heightVal)
                 THEN [status |-> "panic", msg |-> "", obj |-> none]
                 ELSE IF place.status \in {"error", "panic"}
                 THEN [status |-> place.status, msg |-> "unknown expression type", obj |-> none]
                 ELSE [status |-> "ok", msg |-> "",
                       obj |-> IF place.status = "ok"
                               THEN MoveTo(NewRectangle(widthVal.v, heightVal.v), place.pos)
                               ELSE NewRectangle(widthVal.v, heightVal.v)]

\* the loop of createPolygon over the elements of the array
RECURSIVE polygonVertices(_, _, _)
polygonVertices(elements, i, points) ==
    IF i > Len(elements) THEN [status |-> "ok", msg |-> "", points |-> points]
    ELSE IF elements[i].type # "CoordinateExpression"
    THEN [status |-> "error", msg |-> "polygon array must contain coordinate expressions",
          points |-> points]
    ELSE Only({ IF place.status # "ok"
                THEN [status |-> place.status, msg |-> "unknown expression type",
                      points |-> points]
                ELSE polygonVertices(elements, i + 1, Append(points, place.pos))
                : place \in {Coordinate(elements[i])} })

createPolygon(stmt) ==
    IF Len(stmt.Parameters) < 1
    THEN [status |-> "error", msg |-> "polygon requires points array parameter",
          obj |-> NewPolygon(<<>>)]
    ELSE IF stmt.Parameters[1].type # "ArrayExpression"
    THEN [status |-> "error", msg |-> "polygon requires array of coordinates",
          obj |-> NewPolygon(<<>>)]
    ELSE Only({ [status |-> r.status, msg |-> r.msg, obj |-> NewPolygon(r.points)]
                : r \in {polygonVertices(stmt.Parameters[1].Elements, 1, <<>>)} })

\* the shape a create statement of a modelled kind builds
createObject(stmt) ==
    CASE stmt.ObjectType.Type = "CIRCLE" -> createCircle(stmt)
      [] stmt.ObjectType.Type = "RECT" -> createRectangle(stmt)
      [] stmt.ObjectType.Type = "POLYGON" -> createPolygon(stmt)

\* evalCreateStatement for circles, rectangles and polygons and for the kinds
\* that have no case (createTriangle, createLine, createArrow, createText and
\* createCoordinateSystem are not modelled, and no script creates those)
evalCreateStatement(M, stmt) ==
    IF M.scene = Nil THEN Fail(M, newError(M, "no scene defined, create one with 'scene' first", <<>>, ""))
    ELSE IF stmt.ObjectType.Type \notin {"CIRCLE", "RECT", "POLYGON"}
    THEN Fail(M, newError(M, "unknown object type", stmt.ObjectType.Literal, ""))
    ELSE Only({ CASE r.status = "panic" -> Panic(M)
                  [] r.status = "error" ->
                       Fail(M, newError(M, "creating object failed", stmt.Name, r.msg))
                  [] OTHER ->
                       Done([M EXCEPT !.heap = Append(@, r.obj),
                                      !.objects = Put(@, stmt.Name, Len(M.heap) + 1),
                                      !.scene = SceneAdd(@, Len(M.heap) + 1)])
                : r \in {createObject(stmt)} })

setColor(M, id, value) ==
    IF value.t # "string"
    THEN Fail(M, newError(M, "color must be a string", <<>>, ""))
    ELSE LET colorName == ToLower(value.v)
             paint(c) == Done([M EXCEPT !.heap[id] = SetColor(@, c)])
         IN  CASE Len(value.v) > 0 /\ value.v[1] = "#" -> paint(HexToRGBA(value.v))
               [] colorName \in DOMAIN NamedColors    -> paint(NamedColors[colorName])
               [] colorName \in DOMAIN LegacyColors   -> paint(HexToRGBA(LegacyColors[colorName]))
               [] OTHER -> Fail(M, newError(M, "unknown color name", value.v, ""))

setSize(M, id, value) ==
    IF ~IsFloat(value) THEN Fail(M, Errorf("size must be a number", <<>>))
    ELSE IF M.heap[id].kind = "circle"
    THEN Done([M EXCEPT !.heap[id] = SetRadius(@, value.v)])
    ELSE Fail(M, Errorf("object does not support size property", <<>>))

setPosition(M, id, value) ==
    IF value.t # "coordinate"
    THEN Fail(M, newError(M, "position must be a coordinate (x, y)", <<>>, ""))
    ELSE LET place == Coordinate(value.v)
         IN  CASE place.status = "error" ->
                    Fail(M, newError(M, "parsing coordinate failed", <<>>, "unknown expression type"))
               [] place.status = "panic" -> Panic(M)
               [] OTHER -> Done([M EXCEPT !.heap[id] = MoveTo(@, place.pos)])

setOpacity(M, id, value) ==
    IF ~IsFloat(value) THEN Fail(M, Errorf("opacity must be a number", <<>>))
    ELSE Done([M EXCEPT !.heap[id] = SetFillOpacity(@, value.v)])

evalSetStatement(M, stmt) ==
    IF stmt.Object \notin DOMAIN M.objects
    THEN Fail(M, newError(M, "object does not exist", stmt.Object, ""))
    ELSE LET id    == M.objects[stmt.Object]
             value == evalExpression(stmt.Value)
         IN  IF value.err
             THEN Fail(M, newError(M, "parsing the value of the property failed", stmt.Object,
                                   "unknown expression type"))
             ELSE CASE stmt.Property.Type = "COLOR_PROP"    -> setColor(M, id, value)
                    [] stmt.Property.Type = "SIZE_PROP"     -> setSize(M, id, value)
                    [] stmt.Property.Type = "POSITION_PROP" -> setPosition(M, id, value)
                    [] stmt.Property.Type = "OPACITY_PROP"  -> setOpacity(M, id, value)
                    [] stmt.Property.Type = "WIDTH_PROP" ->
                          Fail(M, Errorf("width property not yet implemented", <<>>))
                    [] stmt.Property.Type = "HEIGHT_PROP" ->
                          Fail(M, Errorf("height property not yet implemented", <<>>))
                    [] OTHER -> Fail(M, Errorf("unknown property", stmt.Property.Literal))

\* the frame time of a playback; no animation `animate` builds reads it
FrameEnv == [dt |-> Q \div FPS, any |-> 0]

\* the end of evalAnimateStatement: Scene.PlayAnimation on the animation built
playOn(M, a) ==
    Only({ Done([M EXCEPT !.heap = st.objs,
                          !.scene = Present([@ EXCEPT !.frames = @ + st.renders],
                                            st.renders),
                          !.played = Append(@, [a |-> st.a, m |-> st.objs[a.target],
                                                renders |-> st.renders])])
           : st \in {PlayAnimation(a, M.heap, TRUE, FrameEnv)} })

NotBuilt(status, err) == [status |-> status, err |-> err, a |-> Nil]

Built(a) == [status |-> "ok", err |-> Nil, a |-> a]

\* the switch of evalAnimateStatement on the animation type: the animation
\* constructed for the shape id, or the error returned, or a panic
buildAnimation(M, stmt, id, duration) ==
    LET P    == stmt.Parameters
        kind == stmt.Animation.Type
    IN  CASE kind = "MOVE" ->
               IF Len(P) < 1
               THEN NotBuilt("error", Errorf("move animation requires target position", <<>>))
               ELSE IF P[1].type # "CoordinateExpression"
               THEN NotBuilt("error", Errorf("move parameter must be coordinate", <<>>))
               ELSE Only({ CASE place.status = "error" ->
                                  NotBuilt("error", Errorf("unknown expression type", <<>>))
                             [] place.status = "panic" -> NotBuilt("panic", Nil)
                             [] OTHER ->
                                  Built(NewMoveToAnimation(M.heap[id], id, place.pos, duration))
                           : place \in {Coordinate(P[1])} })
          [] kind \in {"SCALE", "ROTATE"} ->
               IF Len(P) < 1
               THEN NotBuilt("error", Errorf(IF kind = "SCALE"
                                             THEN "scale animation requires scale factor"
                                             ELSE "rotate animation requires angle", <<>>))
               ELSE Only({ IF val.err
                           THEN NotBuilt("error", Errorf("unknown expression type", <<>>))
                           ELSE IF ~IsFloat(val) THEN NotBuilt("panic", Nil)
                           ELSE IF kind = "SCALE"
                           THEN Built(NewScaleAnimation(M.heap[id], id, val.v, duration))
                           ELSE Built(NewRotateAnimation(M.heap[id], id, val.v, duration))
                           : val \in {evalExpression(P[1])} })
          [] kind = "FADE_IN"  -> Built(NewFadeInAnimation(M.heap[id], id, duration))
          [] kind = "FADE_OUT" -> Built(NewFadeOutAnimation(M.heap[id], id, duration))
          [] OTHER ->
               NotBuilt("error", Errorf("unsupported animation type", stmt.Animation.Literal))

evalAnimateStatement(M, stmt) ==
    IF M.scene = Nil THEN Fail(M, Errorf("no scene defined", <<>>))
    ELSE IF stmt.Object \notin DOMAIN M.objects
    THEN Fail(M, Errorf("object not found", stmt.Object))
    ELSE Only({ CASE b.status = "panic" -> Panic(M)
                  [] b.status = "error" -> Fail(M, b.err)
                  [] OTHER -> playOn(M, b.a)
                : b \in {buildAnimation(M, stmt, M.objects[stmt.Object],
                                        evalExpression(stmt.Duration).v)} })

evalRenderStatement(M, stmt) ==
    IF M.scene = Nil THEN Fail(M, Errorf("no scene defined", <<>>))
    ELSE Done([M EXCEPT !.scene = SceneRender(@)])

\* strings.HasSuffix(s, ".png")
HasPngSuffix(s) == Len(s) >= 4 /\ SubSeq(s, Len(s) - 3, Len(s)) = <<".", "p", "n", "g">>

\* evalSaveStatement on a file system that accepts the file
evalSaveStatement(M, stmt) ==
    IF M.scene = Nil THEN Fail(M, Errorf("no scene defined", <<>>))
    ELSE LET filename == evalExpression(stmt.Filename).v
         IN  Done([M EXCEPT !.saved = Append(@, IF HasPngSuffix(filename) THEN filename
                                                ELSE filename \o <<".", "p", "n", "g">>)])

\* evalWaitStatement: time.Sleep only
evalWaitStatement(M, stmt) == Done(M)

RECURSIVE evalStatement(_, _)
RECURSIVE evalBody(_, _, _)
RECURSIVE evalIterations(_, _, _)

\* the inner loop of evalLoopStatement: statements i.. of one iteration
evalBody(M, statements, i) ==
    IF i > Len(statements) THEN Done(M)
    ELSE Only({ IF r.panic \/ r.err # Nil THEN r ELSE evalBody(r.e, statements, i + 1)
                : r \in {evalStatement(M, statements[i])} })

\* a loop that goes on to its next iteration after an error
evalIterationsPastErrors(M, stmt, left) ==
    IF left <= 0 THEN Done(M)
    ELSE Only({ IF r.panic THEN r
                ELSE IF left = 1 THEN r
                ELSE evalIterations(r.e, stmt, left - 1)
                : r \in {evalBody(M, stmt.Statements, 1)} })

\* the outer loop of evalLoopStatement: the iterations still to run
evalIterations(M, stmt, left) ==
    IF left <= 0 THEN Done(M)
    ELSE Only({ IF r.panic \/ r.err # Nil THEN r ELSE evalIterations(r.e, stmt, left - 1)
                : r \in {evalBody(M, stmt.Statements, 1)} })

\* a loop whose counter starts at 1
evalLoopStatementFromOne(M, stmt) ==
    evalIterations(M, stmt, TDiv(evalExpression(stmt.Count).v, Q) - 1)

evalLoopStatement(M, stmt) ==
    evalIterations(M, stmt, TDiv(evalExpression(stmt.Count).v, Q))

\* what a statement can change: scene, table, shapes and saved frames
Effects(M) == [scene |-> M.scene, objects |-> M.objects, heap |-> M.heap, saved |-> M.saved]

\* the record of one executed statement that is not a loop: where it is,
\* the object it names, whether the table and a scene were there for it,
\* whether the shape named was one of the scene's, how many shapes the
\* scene has after it, and for a set statement the property and the string
\* assigned (<<>> for a value that is not a string)
Ran(M, stmt, r) ==
    [line |-> stmt.Token.Line, type |-> stmt.type, ok |-> ~r.panic /\ r.err = Nil,
     name |-> IF stmt.type \in {"SetStatement", "AnimateStatement"} THEN stmt.Object ELSE <<>>,
     known |-> IF stmt.type \in {"SetStatement", "AnimateStatement"}
               THEN stmt.Object \in DOMAIN M.objects ELSE TRUE,
     hadScene |-> M.scene # Nil,
     inScene |-> /\ stmt.type \in {"SetStatement", "AnimateStatement"}
                 /\ stmt.Object \in DOMAIN M.objects
                 /\ M.scene # Nil
                 /\ \E k \in 1..Len(M.scene.objects) :
                        M.scene.objects[k] = M.objects[stmt.Object],
     shapes |-> IF r.e.scene = Nil THEN 0 ELSE Len(r.e.scene.objects),
     property |-> IF stmt.type = "SetStatement" THEN stmt.Property.Type ELSE "",
     text |-> IF stmt.type = "SetStatement" /\ evalExpression(stmt.Value).t = "string"
              THEN evalExpression(stmt.Value).v ELSE <<>>]

\* a statement that is not a loop, by its type
evalSimpleStatement(M, stmt) ==
    CASE stmt.type = "SceneStatement"   -> evalSceneStatement(M, stmt)
      [] stmt.type = "CreateStatement"  -> evalCreateStatement(M, stmt)
      [] stmt.type = "SetStatement"     -> evalSetStatement(M, stmt)
      [] stmt.type = "AnimateStatement" -> evalAnimateStatement(M, stmt)
      [] stmt.type = "RenderStatement"  -> evalRenderStatement(M, stmt)
      [] stmt.type = "SaveStatement"    -> evalSaveStatement(M, stmt)
      [] stmt.type = "WaitStatement"    -> evalWaitStatement(M, stmt)
      [] OTHER -> Fail(M, newError(M, "unknown statement type", <<>>, ""))

\* evalStatement once currentLine is set
evalStatementAt(M, stmt) ==
    IF stmt.type = "LoopStatement" THEN evalLoopStatement(M, stmt)
    ELSE Only({ [r EXCEPT !.e.ran = Append(@, Ran(M, stmt, r)),
                          !.e.kept = IF ~r.panic /\ r.err = Nil THEN Effects(r.e) ELSE @]
                : r \in {evalSimpleStatement(M, stmt)} })

evalStatement(M, stmt) ==
    evalStatementAt([M EXCEPT !.currentLine = stmt.Token.Line], stmt)

\* the loop of Evaluate from statement i on
RECURSIVE EvaluateFrom(_, _, _)
EvaluateFrom(M, statements, i) ==
    IF i > Len(statements) THEN Done(M)
    ELSE Only({ IF r.panic THEN r
                ELSE IF r.err # Nil
                THEN Fail([r.e EXCEPT !.errors = Append(@, r.err)], r.err)
                ELSE EvaluateFrom(r.e, statements, i + 1)
                : r \in {evalStatement(M, statements[i])} })

\* Evaluator.Evaluate
Evaluate(M, program) == EvaluateFrom(M, program.Statements, 1)

\* ------------------------------------------------------------------------
\* State
\* ------------------------------------------------------------------------

VARIABLES
    heap,       \* the shapes allocated so far; a shape is known by its index
    evaluator,  \* Interpreter.evaluator: scene, objects, errors, projectName, currentLine
    saved,      \* the frame files written
    last,       \* the latest RunString call: its script, outcome and what it executed
    runs,       \* RunString calls made
    anim,       \* the Animation last constructed (NoAnim before the first)
    play,       \* the position of Scene.PlayAnimation's frame loop
    calls,      \* direct Update calls made on anim
    lastp,      \* <<p>> for the progress p of the latest Update call, else <<>>
    moves,      \* in-place moves a caller has made on a shape since anim was constructed
    cs          \* a math.CoordinateSystem (NoCoordinateSystem before it is constructed)

vars == <<heap, evaluator, saved, last, runs, anim, play, calls, lastp, moves, cs>>

interpreterVars == <<evaluator, saved, last, runs>>

animationVars == <<anim, play, calls, lastp, moves>>

NoCoordinateSystem == [Width |-> 0, Height |-> 0, Scale |-> 0, made |-> FALSE]

NoAnim == [kind |-> "none"]

Idle ==
    [active |-> FALSE, done |-> FALSE, frame |-> 0, totalFrames |-> 0, renders |-> 0,
     dt |-> 0, pre |-> Vec(0, 0), first |-> Vec(0, 0), last |-> Vec(0, 0)]

NewEvaluator ==
    [scene |-> Nil, objects |-> <<>>, errors |-> <<>>, projectName |-> <<>>, currentLine |-> 0]

NoRun ==
    [script |-> <<>>, outcome |-> "none", diagnostics |-> <<>>, err |-> Nil,
     ran |-> <<>>, played |-> <<>>,
     before |-> [evaluator |-> NewEvaluator, heap |-> <<>>, saved |-> <<>>],
     kept |-> [scene |-> Nil, objects |-> <<>>, heap |-> <<>>, saved |-> <<>>]]

\* ------------------------------------------------------------------------
\* Spec: an Interpreter fed scripts through RunString
\* ------------------------------------------------------------------------

\* RunString calls made on one Interpreter
MaxRuns == 2

\*   scene 8 6 "t"
\*   create rectangle r1 2 1
\*   create circle c1 5 (0, 0)
Prologue ==
    <<"s", "c", "e", "n", "e", " ", "8", " ", "6", " ", "\"", "t", "\"", "\n", "c", "r",
      "e", "a", "t", "e", " ", "r", "e", "c", "t", "a", "n", "g", "l", "e", " ", "r", "1",
      " ", "2", " ", "1", "\n", "c", "r", "e", "a", "t", "e", " ", "c", "i", "r", "c", "l",
      "e", " ", "c", "1", " ", "5", " ", "(", "0", ",", " ", "0", ")">>

\*   set r1.opacity = 0.5
\*   set zz.color = "red"
\*   set r1.opacity = 1
SetUnknown ==
    <<"s", "e", "t", " ", "r", "1", ".", "o", "p", "a", "c", "i", "t", "y", " ", "=", " ",
      "0", ".", "5", "\n", "s", "e", "t", " ", "z", "z", ".", "c", "o", "l", "o", "r", " ",
      "=", " ", "\"", "r", "e", "d", "\"", "\n", "s", "e", "t", " ", "r", "1", ".", "o",
      "p", "a", "c", "i", "t", "y", " ", "=", " ", "1">>

\*   animate move zz (1, 1) 1
AnimateUnknown ==
    <<"a", "n", "i", "m", "a", "t", "e", " ", "m", "o", "v", "e", " ", "z", "z", " ", "(",
      "1", ",", " ", "1", ")", " ", "1">>

\*   animate move r1 (3, 4) 0.1
\*   render
MoveThenRender ==
    <<"a", "n", "i", "m", "a", "t", "e", " ", "m", "o", "v", "e", " ", "r", "1", " ", "(",
      "3", ",", " ", "4", ")", " ", "0", ".", "1", "\n", "r", "e", "n", "d", "e", "r">>

\*   animate fadein r1 0
\*   animate move c1 (3, 4) 0.02
ShortAnimations ==
    <<"a", "n", "i", "m", "a", "t", "e", " ", "f", "a", "d", "e", "i", "n", " ", "r", "1",
      " ", "0", "\n", "a", "n", "i", "m", "a", "t", "e", " ", "m", "o", "v", "e", " ", "c",
      "1", " ", "(", "3", ",", " ", "4", ")", " ", "0", ".", "0", "2">>

\*   create rectangle r2 w 1
RectangleIdent ==
    <<"c", "r", "e", "a", "t", "e", " ", "r", "e", "c", "t", "a", "n", "g", "l", "e", " ",
      "r", "2", " ", "w", " ", "1">>

\*   animate scale r1 (2, 2) 0.1
ScaleCoordinate ==
    <<"a", "n", "i", "m", "a", "t", "e", " ", "s", "c", "a", "l", "e", " ", "r", "1", " ",
      "(", "2", ",", " ", "2", ")", " ", "0", ".", "1">>

\*   set r1.opacity = 0.2
\*   create r3
\*   set r1.opacity = 0.3
BrokenCreate ==
    <<"s", "e", "t", " ", "r", "1", ".", "o", "p", "a", "c", "i", "t", "y", " ", "=", " ",
      "0", ".", "2", "\n", "c", "r", "e", "a", "t", "e", " ", "r", "3", "\n", "s", "e",
      "t", " ", "r", "1", ".", "o", "p", "a", "c", "i", "t", "y", " ", "=", " ", "0", ".",
      "3">>

\*   loop 2 {
\*    set r1.position = (1, 1)
\*    set zz.opacity = 1
\*   }
\*   set r1.opacity = 0.7
FailingLoop ==
    <<"l", "o", "o", "p", " ", "2", " ", "{", "\n", " ", "s", "e", "t", " ", "r", "1", ".",
      "p", "o", "s", "i", "t", "i", "o", "n", " ", "=", " ", "(", "1", ",", " ", "1", ")",
      "\n", " ", "s", "e", "t", " ", "z", "z", ".", "o", "p", "a", "c", "i", "t", "y", " ",
      "=", " ", "1", "\n", "}", "\n", "s", "e", "t", " ", "r", "1", ".", "o", "p", "a",
      "c", "i", "t", "y", " ", "=", " ", "0", ".", "7">>

\*   loop 2 { animate move r1 (1, 0) 0.1 }
MovingLoop ==
    <<"l", "o", "o", "p", " ", "2", " ", "{", " ", "a", "n", "i", "m", "a", "t", "e", " ",
      "m", "o", "v", "e", " ", "r", "1", " ", "(", "1", ",", " ", "0", ")", " ", "0", ".",
      "1", " ", "}">>

\*   set r1.size = 3
\*   render
SizeOfRectangle ==
    <<"s", "e", "t", " ", "r", "1", ".", "s", "i", "z", "e", " ", "=", " ", "3", "\n", "r",
      "e", "n", "d", "e", "r">>

\*   set c1.color = "red"
\*   set c1.color = "nocolor"
Colors ==
    <<"s", "e", "t", " ", "c", "1", ".", "c", "o", "l", "o", "r", " ", "=", " ", "\"", "r",
      "e", "d", "\"", "\n", "s", "e", "t", " ", "c", "1", ".", "c", "o", "l", "o", "r",
      " ", "=", " ", "\"", "n", "o", "c", "o", "l", "o", "r", "\"">>

\*   scene 0 0 "u"
DefaultScene ==
    <<"s", "c", "e", "n", "e", " ", "0", " ", "0", " ", "\"", "u", "\"">>

\*   wait 0
\*   save "f"
WaitAndSave ==
    <<"w", "a", "i", "t", " ", "0", "\n", "s", "a", "v", "e", " ", "\"", "f", "\"">>

\*   create polygon p1 [(0, 0), (2, 0), (2, 2)]
\*   create polygon p2 []
Polygons ==
    <<"c", "r", "e", "a", "t", "e", " ", "p", "o", "l", "y", "g", "o", "n", " ", "p", "1",
      " ", "[", "(", "0", ",", " ", "0", ")", ",", " ", "(", "2", ",", " ", "0", ")", ",",
      " ", "(", "2", ",", " ", "2", ")", "]", "\n", "c", "r", "e", "a", "t", "e", " ", "p",
      "o", "l", "y", "g", "o", "n", " ", "p", "2", " ", "[", "]">>

\*   set c1.color = "#12"
\*   set r1.color = "#GG0000"
BadHex ==
    <<"s", "e", "t", " ", "c", "1", ".", "c", "o", "l", "o", "r", " ", "=", " ", "\"", "#",
      "1", "2", "\"", "\n", "s", "e", "t", " ", "r", "1", ".", "c", "o", "l", "o", "r",
      " ", "=", " ", "\"", "#", "G", "G", "0", "0", "0", "0", "\"">>

\*   create r3
\*   render
\*   set r1 opacity
TwoSyntaxErrors ==
    <<"c", "r", "e", "a", "t", "e", " ", "r", "3", "\n", "r", "e", "n", "d", "e", "r",
      "\n", "s", "e", "t", " ", "r", "1", " ", "o", "p", "a", "c", "i", "t", "y">>

\*   loop 3 {
\*    create circle k 1
\*    render
\*   }
CountingLoop ==
    <<"l", "o", "o", "p", " ", "3", " ", "{", "\n", " ", "c", "r", "e", "a", "t", "e", " ",
      "c", "i", "r", "c", "l", "e", " ", "k", " ", "1", "\n", " ", "r", "e", "n", "d", "e",
      "r", "\n", "}">>

\*   animate scale r1 1.5 0.5
AnimateScale ==
    <<"a", "n", "i", "m", "a", "t", "e", " ", "s", "c", "a", "l", "e", " ", "r", "1", " ",
      "1", ".", "5", " ", "0", ".", "5">>

\*   animate color r1 "red" 1
AnimateColor ==
    <<"a", "n", "i", "m", "a", "t", "e", " ", "c", "o", "l", "o", "r", " ", "r", "1", " ",
      "\"", "r", "e", "d", "\"", " ", "1">>

\*   animate bounce r1 1
AnimateBounce ==
    <<"a", "n", "i", "m", "a", "t", "e", " ", "b", "o", "u", "n", "c", "e", " ", "r", "1",
      " ", "1">>

\*   animate fadein r1 0.1
AnimateFade ==
    <<"a", "n", "i", "m", "a", "t", "e", " ", "f", "a", "d", "e", "i", "n", " ", "r", "1",
      " ", "0", ".", "1">>

\*   create circle c2 1 (0, -3)
\*   set r1.position = (-1, -1)
NegativePosition ==
    <<"c", "r", "e", "a", "t", "e", " ", "c", "i", "r", "c", "l", "e", " ", "c", "2", " ",
      "1", " ", "(", "0", ",", " ", "-", "3", ")", "\n", "s", "e", "t", " ", "r", "1", ".",
      "p", "o", "s", "i", "t", "i", "o", "n", " ", "=", " ", "(", "-", "1", ",", " ", "-",
      "1", ")">>

\*   render // draw
\*   render
SlashComment ==
    <<"r", "e", "n", "d", "e", "r", " ", "/", "/", " ", "d", "r", "a", "w", "\n", "r", "e",
      "n", "d", "e", "r">>

\*   render # draw
\*   render
HashComment ==
    <<"r", "e", "n", "d", "e", "r", " ", "#", " ", "d", "r", "a", "w", "\n", "r", "e", "n",
      "d", "e", "r">>

\*   scene 4 3 "v"
\*   set r1.opacity = 0.5
\*   animate fadeout c1 0.1
SceneAgain ==
    <<"s", "c", "e", "n", "e", " ", "4", " ", "3", " ", "\"", "v", "\"", "\n", "s", "e",
      "t", " ", "r", "1", ".", "o", "p", "a", "c", "i", "t", "y", " ", "=", " ", "0", ".",
      "5", "\n", "a", "n", "i", "m", "a", "t", "e", " ", "f", "a", "d", "e", "o", "u", "t",
      " ", "c", "1", " ", "0", ".", "1">>

\*   create circle k 2 (1, 1)
CircleRadiusFirst ==
    <<"c", "r", "e", "a", "t", "e", " ", "c", "i", "r", "c", "l", "e", " ", "k", " ", "2",
      " ", "(", "1", ",", " ", "1", ")">>

\*   create circle k (1, 1) 2
CirclePositionFirst ==
    <<"c", "r", "e", "a", "t", "e", " ", "c", "i", "r", "c", "l", "e", " ", "k", " ", "(",
      "1", ",", " ", "1", ")", " ", "2">>

\*   scene 800 600 "t"
\*   create circle c1 50 (0,0)
\*   set c1.color = "#FF0000"
\*   render
\*   save "out"
RedCircle ==
    <<"s", "c", "e", "n", "e", " ", "8", "0", "0", " ", "6", "0", "0", " ", "\"", "t",
      "\"", "\n", "c", "r", "e", "a", "t", "e", " ", "c", "i", "r", "c", "l", "e", " ",
      "c", "1", " ", "5", "0", " ", "(", "0", ",", "0", ")", "\n", "s", "e", "t", " ", "c",
      "1", ".", "c", "o", "l", "o", "r", " ", "=", " ", "\"", "#", "F", "F", "0", "0", "0",
      "0", "\"", "\n", "r", "e", "n", "d", "e", "r", "\n", "s", "a", "v", "e", " ", "\"",
      "o", "u", "t", "\"">>

\*   scene 8 "t"
\*   render
SceneWithoutHeight ==
    <<"s", "c", "e", "n", "e", " ", "8", " ", "\"", "t", "\"", "\n", "r", "e", "n", "d",
      "e", "r">>

\*   create circle k 2 (1, 1)
\*   set k.size = 3
CircleResized ==
    <<"c", "r", "e", "a", "t", "e", " ", "c", "i", "r", "c", "l", "e", " ", "k", " ", "2",
      " ", "(", "1", ",", " ", "1", ")", "\n", "s", "e", "t", " ", "k", ".", "s", "i", "z",
      "e", " ", "=", " ", "3">>

\*   loop 2 {
\*    render
\*   save "f"
UnclosedLoop ==
    <<"l", "o", "o", "p", " ", "2", " ", "{", "\n", " ", "r", "e", "n", "d", "e", "r",
      "\n", "s", "a", "v", "e", " ", "\"", "f", "\"">>

Scripts ==
    {Prologue, SetUnknown, AnimateUnknown, MoveThenRender, ShortAnimations,
     RectangleIdent, ScaleCoordinate, BrokenCreate, FailingLoop, MovingLoop,
     SizeOfRectangle, Colors, DefaultScene, WaitAndSave, Polygons, BadHex,
     TwoSyntaxErrors, CountingLoop, AnimateScale, AnimateColor, AnimateBounce,
     AnimateFade, NegativePosition, SlashComment, HashComment, SceneAgain,
     CircleRadiusFirst, CirclePositionFirst, RedCircle, SceneWithoutHeight,
     CircleResized, UnclosedLoop}

\* what RunString returns for the result r of Evaluate
Outcome(r) ==
    CASE r.panic -> "panic"
      [] ~r.panic /\ r.err # Nil -> "execution error"
      [] ~r.panic /\ r.err = Nil /\ Len(r.e.errors) > 0 -> "execution errors"
      [] OTHER -> "ok"

\* a RunString that evaluates whatever the parser recorded
RunDespiteDiagnostics(M, script) ==
    Only({ Only({ [outcome |-> Outcome(r), diagnostics |-> program.errors,
                   e |-> r.e, err |-> r.err]
                  : r \in {Evaluate(M, program)} })
           : program \in {ParseProgram(NewParser(NewLexer(script)))} })

\* RunString on the evaluator M: lex, parse, and evaluate when the parser
\* recorded nothing.  outcome is the error RunString returns ("ok" for nil),
\* or "panic" when the process died in a panic.
Run(M, script) ==
    Only({ IF Len(program.errors) > 0
           THEN [outcome |-> "parsing errors", diagnostics |-> program.errors,
                 e |-> M, err |-> Nil]
           ELSE Only({ [outcome |-> Outcome(r), diagnostics |-> <<>>,
                        e |-> r.e, err |-> r.err]
                       : r \in {Evaluate(M, program)} })
           : program \in {ParseProgram(NewParser(NewLexer(script)))} })

Init ==
    /\ heap = <<>>
    /\ evaluator = NewEvaluator
    /\ saved = <<>>
    /\ last = NoRun
    /\ runs = 0
    /\ anim = NoAnim
    /\ play = Idle
    /\ calls = 0
    /\ lastp = <<>>
    /\ moves = 0
    /\ cs = NoCoordinateSystem

\* the Evaluator of the Interpreter with the shapes it points to
Loaded ==
    [scene |-> evaluator.scene, objects |-> evaluator.objects,
     errors |-> evaluator.errors, projectName |-> evaluator.projectName,
     currentLine |-> evaluator.currentLine,
     heap |-> heap, saved |-> saved, ran |-> <<>>, played |-> <<>>,
     kept |-> [scene |-> evaluator.scene, objects |-> evaluator.objects,
               heap |-> heap, saved |-> saved]]

\* Interpreter.RunString(script), on a process that is still alive
RunString ==
    /\ runs < MaxRuns
    /\ last.outcome # "panic"
    /\ \E script \in Scripts :
          \E r \in {Run(Loaded, script)} :
              /\ evaluator' = [scene |-> r.e.scene, objects |-> r.e.objects,
                               errors |-> r.e.errors, projectName |-> r.e.projectName,
                               currentLine |-> r.e.currentLine]
              /\ heap' = r.e.heap
              /\ saved' = r.e.saved
              /\ last' = [script |-> script, outcome |-> r.outcome,
                          diagnostics |-> r.diagnostics, err |-> r.err,
                          ran |-> r.e.ran, played |-> r.e.played,
                          before |-> [evaluator |-> evaluator, heap |-> heap, saved |-> saved],
                          kept |-> r.e.kept]
    /\ runs' = runs + 1
    /\ UNCHANGED <<animationVars, cs>>

Next == RunString

Spec == Init /\ [][Next]_vars

\* ------------------------------------------------------------------------
\* Properties of RunString and Evaluate (Spec)
\* ------------------------------------------------------------------------

\* what the statements of the calls so far have left behind
Current == [scene |-> evaluator.scene, objects |-> evaluator.objects,
            heap |-> heap, saved |-> saved]

Before == [scene |-> last.before.evaluator.scene, objects |-> last.before.evaluator.objects,
           heap |-> last.before.heap, saved |-> last.before.saved]

\* C1: when Evaluate returns an error, the log has grown by exactly that
\* error, the failing statement is the last one executed (no later statement
\* and no later loop iteration ran), and what the statements before it did
\* is still in place.
C1_StopsAtFirstError ==
    last.outcome = "execution error" =>
        /\ evaluator.errors = Append(last.before.evaluator.errors, last.err)
        /\ Len(last.ran) >= 1
        /\ \A i \in 1..Len(last.ran) : last.ran[i].ok <=> i < Len(last.ran)
        /\ \A i \in 1..(Len(last.ran) - 1) : last.ran[i].line <= last.ran[i + 1].line
        /\ Current = last.kept

C1_Witness ==
    /\ last.outcome = "execution error"
    /\ last.script = FailingLoop
    /\ Len(last.ran) = 2
    /\ Current # Before

\* C2: no RunString call ends in a panic.
C2_NeverPanics == last.outcome # "panic"

\* C3: a script with a parser diagnostic makes RunString return the parsing
\* error with no statement executed and the table, the scene, the log and
\* the shapes as they were before the call.
C3_ParseErrorsBlockEvaluation ==
    Len(last.diagnostics) > 0 =>
        /\ last.outcome = "parsing errors"
        /\ last.ran = <<>>
        /\ evaluator = last.before.evaluator
        /\ Current = Before

C3_Witness ==
    /\ Len(last.diagnostics) > 0
    /\ last.script = BrokenCreate
    /\ <<"r", "1">> \in DOMAIN evaluator.objects

\* a set or animate statement was executed on a name the table did not have
UnknownTarget(i) ==
    last.ran[i].type \in {"SetStatement", "AnimateStatement"} /\ ~last.ran[i].known

\* the statement failed with exactly one error and changed nothing
FailedCleanly(i) ==
    /\ ~last.ran[i].ok
    /\ i = Len(last.ran)
    /\ last.outcome = "execution error"
    /\ evaluator.errors = Append(last.before.evaluator.errors, last.err)
    /\ Current = last.kept

C5_AnimateCompletes ==
    \A i \in 1..Len(last.played) :
        LET a == last.played[i].a
            m == last.played[i].m
        IN  /\ IsFinished(a)
            /\ a.kind = "move" => GetCenter(m) = a.endPos
            /\ a.kind = "fadein" => m.fillOpacity = Q
            /\ a.kind = "fadeout" => m.fillOpacity = 0

\* C11: a scene statement leaves the Scene with no shapes, and a name that
\* resolves in a set or animate statement under a Scene is a shape of that
\* Scene (no name created under an earlier scene resolves).
C11_SceneDiscardsObjects ==
    \A i \in 1..Len(last.ran) :
        /\ (last.ran[i].type = "SceneStatement" /\ last.ran[i].ok) => last.ran[i].shapes = 0
        /\ (last.ran[i].type \in {"SetStatement", "AnimateStatement"}
              /\ last.ran[i].known /\ last.ran[i].hadScene) => last.ran[i].inScene

\* C12: every shape a successful create has made has at least one point.
C12_PointsNeverEmpty == \A i \in 1..Len(heap) : Len(heap[i].points) > 0

\* a "#RRGGBB" literal with six hexadecimal digits
WellFormedHex(v) == Len(v) = 7 /\ v[1] = "#" /\ \A i \in 2..7 : isHexDigit(v[i])

\* a name of the closed set setColor matches
KnownColorName(v) == ToLower(v) \in DOMAIN NamedColors \cup DOMAIN LegacyColors

\* C14: a set of the color property of an existing object to a value that is
\* neither a well-formed #RRGGBB literal nor a known color name fails.
C14_NoSilentDefault ==
    \A i \in 1..Len(last.ran) :
        (/\ last.ran[i].type = "SetStatement"
         /\ last.ran[i].known
         /\ last.ran[i].property = "COLOR_PROP"
         /\ ~WellFormedHex(last.ran[i].text)
         /\ ~KnownColorName(last.ran[i].text)) => ~last.ran[i].ok

\* C15: the error of a failed statement carries the line of that statement,
\* and the error of a failed set statement names the object it was for.
C15_ErrorsLocated ==
    last.outcome = "execution error" =>
        /\ last.err.located
        /\ last.err.line = last.ran[Len(last.ran)].line
        /\ last.ran[Len(last.ran)].type = "SetStatement"
              => last.err.name = last.ran[Len(last.ran)].name

\* the lines of the scripts that have syntax errors: the lines the errors are on
SyntaxErrorLines == (BrokenCreate :> <<2>>) @@ (TwoSyntaxErrors :> <<1, 3>>)

\* C16: the parser reports one diagnostic for each syntax error of a script,
\* in order, each with the line its error is on.
C16_OneDiagnosticPerError ==
    last.script \in DOMAIN SyntaxErrorLines =>
        [i \in 1..Len(last.diagnostics) |-> last.diagnostics[i].line]
            = SyntaxErrorLines[last.script]

\* the loops of the scripts that are one loop statement: the count and the
\* statements of the body
Loops ==
    (CountingLoop :> [count |-> 3, body |-> <<"CreateStatement", "RenderStatement">>])
    @@ (MovingLoop :> [count |-> 2, body |-> <<"AnimateStatement">>])

\* occurrences of statement type t in body
Occurrences(body, t) == Cardinality({k \in 1..Len(body) : body[k] = t})

\* C17: a loop that ends without error has executed the statements of its
\* body in order, count times over, each iteration on what the one before
\* left: every create of every iteration added a shape to the scene, every
\* render a frame, every animate a playback, and all of it is there after
\* the loop.
C17_LoopRepeatsBody ==
    (last.script \in DOMAIN Loops /\ last.outcome = "ok") =>
        LET loop == Loops[last.script]
            n    == Len(loop.body)
        IN  /\ Len(last.ran) = loop.count * n
            /\ \A i \in 1..Len(last.ran) :
                  /\ last.ran[i].ok
                  /\ last.ran[i].type = loop.body[((i - 1) % n) + 1]
                  /\ last.ran[i].shapes =
                        Len(last.before.evaluator.scene.objects)
                        + Cardinality({k \in 1..i : last.ran[k].type = "CreateStatement"})
            /\ Len(heap) = Len(last.before.heap)
                              + loop.count * Occurrences(loop.body, "CreateStatement")
            /\ Len(evaluator.scene.objects) =
                  Len(last.before.evaluator.scene.objects)
                  + loop.count * Occurrences(loop.body, "CreateStatement")
            /\ Len(last.played) = loop.count * Occurrences(loop.body, "AnimateStatement")
            /\ evaluator.scene.frames >=
                  last.before.evaluator.scene.frames
                  + loop.count * Occurrences(loop.body, "RenderStatement")

C17_Witness ==
    /\ last.script = CountingLoop
    /\ last.outcome = "ok"
    /\ Len(last.ran) = 6
    /\ Len(heap) = Len(last.before.heap) + 3
    /\ evaluator.scene.frames = last.before.evaluator.scene.frames + 3

\* the scripts that are one well-formed animate statement on r1, with the
\* kind of Animation each asks for
AnimateForms ==
    (AnimateScale :> "scale") @@ (AnimateColor :> "color") @@ (AnimateBounce :> "bounce")
    @@ (AnimateFade :> "fadein")

\* C18: a well-formed animate statement on an existing shape of a scene
\* parses without diagnostics and evaluates without error, having built and
\* played the Animation of its kind.
C18_AnimateForms ==
    (/\ last.script \in DOMAIN AnimateForms
     /\ last.before.evaluator.scene # Nil
     /\ <<"r", "1">> \in DOMAIN last.before.evaluator.objects) =>
        /\ last.diagnostics = <<>>
        /\ last.outcome = "ok"
        /\ Len(last.played) = 1
        /\ last.played[1].a.kind = AnimateForms[last.script]

\* C19: a script that creates a circle at (0, -3) and moves r1 to (-1, -1),
\* run on a scene that has r1, parses without diagnostics and leaves the
\* circle below the origin and r1 left of and below it.
C19_NegativeNumbers ==
    (/\ last.script = NegativePosition
     /\ last.before.evaluator.scene # Nil
     /\ <<"r", "1">> \in DOMAIN last.before.evaluator.objects) =>
        /\ last.diagnostics = <<>>
        /\ last.outcome = "ok"
        /\ <<"c", "2">> \in DOMAIN evaluator.objects
        /\ GetCenter(heap[evaluator.objects[<<"c", "2">>]]).Y < 0
        /\ GetCenter(heap[evaluator.objects[<<"r", "1">>]]).X < 0
        /\ GetCenter(heap[evaluator.objects[<<"r", "1">>]]).Y < 0

\* the types of the tokens the lexer emits for a script
TokenTypes(script) ==
    [i \in 1..Len(Tokens(NewLexer(script))) |-> Tokens(NewLexer(script))[i].Type]

\* C20: for a script of two render statements whose first line ends in a
\* comment, opened by // or by #, the lexer emits the two RENDER tokens and
\* the NEWLINE between them and no token for the comment.
C20_CommentsSkipped ==
    last.script \in {SlashComment, HashComment} =>
        TokenTypes(last.script) = <<"RENDER", "NEWLINE", "RENDER", "EOF">>

\* the shape m is a circle of radius r around c, to a hundredth of a unit
OnCircle(m, c, r) ==
    /\ Abs(GetCenter(m).X - c.X) <= Q \div 100
    /\ Abs(GetCenter(m).Y - c.Y) <= Q \div 100
    /\ Len(m.points) > 0
    /\ \A i \in 1..Len(m.points) : Abs(Distance(m.points[i], c) - r) <= Q \div 100

\* C21: `create circle k 2 (1, 1)` and `create circle k (1, 1) 2`, run on a
\* scene by an Evaluator with an empty error log, each parse without
\* diagnostics and bind k to a circle of radius 2
\* around (1, 1).
C21_BothParameterOrders ==
    (/\ last.script \in {CircleRadiusFirst, CirclePositionFirst}
     /\ last.before.evaluator.scene # Nil
     /\ last.before.evaluator.errors = <<>>) =>
        /\ last.diagnostics = <<>>
        /\ last.outcome = "ok"
        /\ <<"k">> \in DOMAIN evaluator.objects
        /\ OnCircle(heap[evaluator.objects[<<"k">>]], Vec(Q, Q), 2 * Q)

\* the radius-first order alone does what C21 says
C21_RadiusFirst ==
    (/\ last.script = CircleRadiusFirst
     /\ last.before.evaluator.scene # Nil
     /\ last.before.evaluator.errors = <<>>) =>
        /\ last.diagnostics = <<>>
        /\ last.outcome = "ok"
        /\ <<"k">> \in DOMAIN evaluator.objects
        /\ OnCircle(heap[evaluator.objects[<<"k">>]], Vec(Q, Q), 2 * Q)

\* the PNG files written so far through the scene's renderer and by save
FilesWritten ==
    (IF evaluator.scene = Nil THEN 0 ELSE evaluator.scene.autoSaved) + Len(saved)

\* C22: the script RedCircle, run on a new Interpreter, leaves exactly one
\* shape, c1, a circle of radius 50 around (0, 0) coloured (255, 0, 0), and
\* has written exactly one frame file, out.png.
C22_RedCircle ==
    (last.script = RedCircle /\ runs = 1) =>
        /\ last.outcome = "ok"
        /\ DOMAIN evaluator.objects = {<<"c", "1">>}
        /\ evaluator.scene.objects = <<evaluator.objects[<<"c", "1">>]>>
        /\ heap[evaluator.objects[<<"c", "1">>]].color = RGBA(255, 0, 0, 255)
        /\ heap[evaluator.objects[<<"c", "1">>]].radius = 50 * Q
        /\ GetCenter(heap[evaluator.objects[<<"c", "1">>]]) = Vec(0, 0)
        /\ saved = <<<<"o", "u", "t", ".", "p", "n", "g">>>>
        /\ FilesWritten = 1

\* what RedCircle does leave: the shape as C22 says, and two files written,
\* one by render and one by save
C22_TwoFiles ==
    (last.script = RedCircle /\ runs = 1) =>
        /\ last.outcome = "ok"
        /\ DOMAIN evaluator.objects = {<<"c", "1">>}
        /\ evaluator.scene.objects = <<evaluator.objects[<<"c", "1">>]>>
        /\ heap[evaluator.objects[<<"c", "1">>]].color = RGBA(255, 0, 0, 255)
        /\ heap[evaluator.objects[<<"c", "1">>]].radius = 50 * Q
        /\ GetCenter(heap[evaluator.objects[<<"c", "1">>]]) = Vec(0, 0)
        /\ saved = <<<<"o", "u", "t", ".", "p", "n", "g">>>>
        /\ evaluator.scene.autoSaved = 1

\* the types of the statements the parser returns for a script
StatementTypes(script) ==
    Only({ [i \in 1..Len(program.Statements) |-> program.Statements[i].type]
           : program \in {ParseProgram(NewParser(NewLexer(script)))} })

\* C23: for `scene 8 "t"`, which lacks the height, followed by a line with
\* `render`, the parser records exactly one diagnostic, on line 1, skips the
\* rest of line 1 and parses the render statement of line 2.
C23_ResynchronizesAtNextLine ==
    last.script = SceneWithoutHeight =>
        /\ Len(last.diagnostics) = 1
        /\ last.diagnostics[1].line = 1
        /\ StatementTypes(last.script) = <<"RenderStatement">>

\* the line token i of a token stream is written on: one more than the
\* NEWLINE tokens before it (no script has a line break inside a string)
WrittenOn(tokens, i) ==
    1 + Cardinality({j \in 1..(i - 1) : tokens[j].Type = "NEWLINE"})

\* C26: every token the lexer returns for a script carries the number of
\* the line it is written on and a column of at least 1.
C26_TokenPositions ==
    runs > 0 =>
        \A tokens \in {Tokens(NewLexer(last.script))} :
            \A i \in 1..Len(tokens) :
                /\ tokens[i].Line = WrittenOn(tokens, i)
                /\ tokens[i].Column >= 1

\* what does hold of the lines: a token is stamped with its own line or the
\* next one
C26_LineOrNext ==
    runs > 0 =>
        \A tokens \in {Tokens(NewLexer(last.script))} :
            \A i \in 1..Len(tokens) :
                tokens[i].Line \in {WrittenOn(tokens, i), WrittenOn(tokens, i) + 1}

\* the shapes bound to a name, and the shapes of the active scene
Bound == {evaluator.objects[n] : n \in DOMAIN evaluator.objects}

InScene == {evaluator.scene.objects[i] : i \in 1..Len(evaluator.scene.objects)}

\* C27: while no statement has failed, the active scene's shape list holds
\* exactly the shapes bound to a name, each once.
C27_SceneMatchesTable ==
    (evaluator.scene # Nil /\ evaluator.errors = <<>>) =>
        /\ InScene = Bound
        /\ Cardinality(InScene) = Len(evaluator.scene.objects)

\* what does hold: a shape is in the scene's list at most once
C27_EachShapeOnce ==
    (evaluator.scene # Nil /\ evaluator.errors = <<>>) =>
        Cardinality(InScene) = Len(evaluator.scene.objects)

\* C28: a RunString call returns success exactly when its own script
\* parsed without diagnostics and every statement of it evaluated without
\* error, whatever the calls before it returned.
C28_OutcomeOfThisScript ==
    (runs > 0 /\ last.outcome # "panic") =>
        (last.outcome = "ok" <=>
            /\ last.diagnostics = <<>>
            /\ last.err = Nil
            /\ \A i \in 1..Len(last.ran) : last.ran[i].ok)

\* on an Interpreter whose error log was empty before the call, the outcome
\* is that of the script
C28_OnAnEmptyLog ==
    (runs > 0 /\ last.outcome # "panic" /\ last.before.evaluator.errors = <<>>) =>
        (last.outcome = "ok" <=>
            /\ last.diagnostics = <<>>
            /\ last.err = Nil
            /\ \A i \in 1..Len(last.ran) : last.ran[i].ok)

\* C29: `set k.size = 3` on the circle k created with radius 2 around
\* (1, 1) leaves k a circle of radius 3 around (1, 1).
C29_SizeKeepsCentre ==
    (/\ last.script = CircleResized
     /\ last.before.evaluator.scene # Nil
     /\ last.before.evaluator.errors = <<>>) =>
        /\ last.outcome = "ok"
        /\ heap[evaluator.objects[<<"k">>]].radius = 3 * Q
        /\ OnCircle(heap[evaluator.objects[<<"k">>]], Vec(Q, Q), 3 * Q)

\* what the statement does: the circle has radius 3 around the origin,
\* where NewCircle made it
C29_SizeRecentres ==
    (/\ last.script = CircleResized
     /\ last.before.evaluator.scene # Nil
     /\ last.before.evaluator.errors = <<>>) =>
        /\ last.outcome = "ok"
        /\ heap[evaluator.objects[<<"k">>]].radius = 3 * Q
        /\ OnCircle(heap[evaluator.objects[<<"k">>]], Vec(0, 0), 3 * Q)

\* the tokens of a type in the token stream of a script
TokensOf(script, type) ==
    Cardinality({i \in 1..Len(Tokens(NewLexer(script))) :
                    Tokens(NewLexer(script))[i].Type = type})

\* C30: a script the parser has no diagnostic for has a closing brace for
\* every opening brace of a loop.
C30_LoopsClosed ==
    (runs > 0 /\ last.diagnostics = <<>>) =>
        TokensOf(last.script, "LBRACE") = TokensOf(last.script, "RBRACE")

\* ------------------------------------------------------------------------
\* SpecAnim: one Animation built on a shape of a Scene, played by
\* Scene.PlayAnimation and updated directly through the Animation interface
\* ------------------------------------------------------------------------

\* create circle c1 50 (0, 0);  create rectangle r1 20 10 with opacity 0.5
SceneShapes ==
    << MoveTo(NewCircle(50 * Q), Vec(0, 0)),
       SetFillOpacity(NewRectangle(20 * Q, 10 * Q), Q \div 2) >>

Durations == {0, Q \div 50, Q \div 10, Q}

Progs == {0, Q \div 2, Q, (3 * Q) \div 2}

\* wall-clock seconds between two Update calls
FrameTimes == {Q \div 30, Q \div 2}

\* bytes an unrepresentable uint8 conversion may give
AnyBytes == {0, 255}

Red == RGBA(255, 0, 0, 255)

\* the animations `animate` builds, on shape m (number t)
Animatable(m, t, d) ==
    { NewMoveToAnimation(m, t, Vec(100 * Q, 0), d),
      NewScaleAnimation(m, t, 2 * Q, d),
      NewRotateAnimation(m, t, Pi \div 2, d),
      NewFadeInAnimation(m, t, d),
      NewFadeOutAnimation(m, t, d) }

\* the animations only a caller of the animation package builds
Buildable(m, t, d) ==
    { NewColorAnimation(m, t, Red, d),
      NewPathAnimation(m, t, << Vec(0, 0), Vec(3 * Q, 4 * Q), Vec(3 * Q, 10 * Q) >>, d),
      NewElasticAnimation(m, t, "scale", (12 * Q) \div 10,
                          IF d > Q \div 10 THEN Q \div 10 ELSE d),
      NewElasticAnimation(m, t, "opacity", Q, d),
      NewElasticAnimation(m, t, "x", 10 * Q, d),
      NewBouncingBallAnimation(m, t, d),
      NewWaitAnimation(d),
      NewAnimationGroup(<< NewMoveToAnimation(m, t, Vec(100 * Q, 0), d),
                           NewFadeInAnimation(m, t, Q \div 10) >>),
      NewAnimationGroup(<< NewMoveToAnimation(m, t, Vec(100 * Q, 0), d),
                           NewFadeOutAnimation(m, t, d) >>),
      NewAnimationGroup(<<>>) }

AnimInit ==
    /\ heap = SceneShapes
    /\ evaluator = NewEvaluator
    /\ saved = <<>>
    /\ last = NoRun
    /\ runs = 0
    /\ anim = NoAnim
    /\ play = Idle
    /\ calls = 0
    /\ lastp = <<>>
    /\ moves = 0
    /\ cs = NoCoordinateSystem

\* a caller constructs an animation on a shape of the scene
Construct ==
    /\ anim = NoAnim
    /\ \E d \in Durations :
          \E a \in Animatable(heap[1], 1, d) \cup Animatable(heap[2], 2, d)
                        \cup Buildable(heap[2], 2, d) : anim' = a
    /\ UNCHANGED <<heap, play, calls, lastp, moves, interpreterVars, cs>>

\* BaseAnimation.SetInterpolation before the animation is used
ChooseInterpolation ==
    /\ anim # NoAnim /\ anim.kind # "group"
    /\ ~play.active /\ ~play.done /\ calls = 0
    /\ anim.interpolation = "Smooth"
    /\ \E i \in InterpolationTypes \ {"Smooth"} : anim' = SetInterpolation(anim, i)
    /\ UNCHANGED <<heap, play, calls, lastp, moves, interpreterVars, cs>>

TargetCenter(a, objs) ==
    IF a.kind \in {"group", "wait", "none"} THEN Vec(0, 0) ELSE GetCenter(objs[a.target])

\* Scene.PlayAnimation up to the frame loop: Reset and the frame count
PlayBegin ==
    /\ anim # NoAnim
    /\ ~play.active /\ ~play.done /\ calls = 0
    /\ anim' = Reset(anim)
    /\ \E dt \in FrameTimes :
          play' = [Idle EXCEPT !.active = TRUE,
                               !.totalFrames = TotalFrames(anim.duration),
                               !.dt = dt,
                               !.pre = TargetCenter(anim, heap)]
    /\ UNCHANGED <<heap, calls, lastp, moves, interpreterVars, cs>>

\* one iteration of the frame loop of Scene.PlayAnimation
PlayStep ==
    /\ play.active
    /\ \E any \in AnyBytes :
          \E r \in {PlayFrame([a |-> anim, objs |-> heap, renders |-> play.renders,
                               frame |-> play.frame, stop |-> FALSE],
                              play.totalFrames, TRUE, [dt |-> play.dt, any |-> any])} :
              /\ anim' = r.a
              /\ heap' = r.objs
              /\ play' = [play EXCEPT !.frame = r.frame,
                                      !.renders = r.renders,
                                      !.first = IF play.frame = 0
                                                THEN TargetCenter(r.a, r.objs)
                                                ELSE play.first,
                                      !.last = TargetCenter(r.a, r.objs),
                                      !.active = ~r.stop,
                                      !.done = r.stop]
    /\ lastp' = << FrameProgress(play.frame, play.totalFrames) >>
    /\ UNCHANGED <<calls, moves, interpreterVars, cs>>

\* a caller drives the animation itself: anim.Update(progress)
DirectUpdate ==
    /\ anim # NoAnim
    /\ ~play.active
    /\ calls < MaxUpdates
    /\ \E p \in Progs, dt \in FrameTimes, any \in AnyBytes :
          \E r \in {UpdateAnimation(anim, heap, p, [dt |-> dt, any |-> any])} :
              anim' = r.a /\ heap' = r.objs /\ lastp' = <<p>>
    /\ calls' = calls + 1
    /\ UNCHANGED <<play, moves, interpreterVars, cs>>

AnimNext == Construct \/ ChooseInterpolation \/ PlayBegin \/ PlayStep \/ DirectUpdate

SpecAnim == AnimInit /\ [][AnimNext]_vars

\* ------------------------------------------------------------------------
\* Properties of playback and of the Animation interface (SpecAnim)
\* ------------------------------------------------------------------------

AnimateKinds == {"move", "scale", "rotate", "fadein", "fadeout"}

\* a playback of a kind `animate` builds has run to the end of its frame loop
Played == play.done /\ anim.kind \in AnimateKinds

\* C6: a played 1.0-second move makes exactly 31 render calls, frames 0..30;
\* after frame 0 the target's centroid is where it was before the playback
\* and after the last frame it is the requested position.
C6_OneSecondMove ==
    (play.done /\ anim.kind = "move" /\ anim.duration = Q) =>
        /\ play.renders = 31
        /\ play.frame = 31
        /\ play.first = play.pre
        /\ play.last = anim.endPos

C6_Witness ==
    /\ play.done /\ anim.kind = "move" /\ anim.duration = Q /\ anim.target = 1
    /\ play.renders = 31
    /\ play.first = Vec(0, 0)
    /\ play.last = Vec(100 * Q, 0)

\* C7 as stated: one `animate` renders round(duration * frame rate) frames.
C7_RoundedFrames ==
    Played => play.renders = (2 * anim.duration * FPS + Q) \div (2 * Q)

\* C7, amended: one `animate` renders floor(duration * frame rate) + 1 frames,
\* whatever the frame time and the interpolation.
C7_FloorPlusOne ==
    Played =>
        /\ (play.renders - 1) * Q <= anim.duration * FPS
        /\ anim.duration * FPS < play.renders * Q

C7_Witness ==
    /\ Played /\ anim.duration = Q \div 50 /\ play.renders = 1 /\ anim.kind = "fadein"

\* an Update call made by a caller, repeating the progress of the call before
RepeatedUpdate ==
    /\ calls' = calls + 1
    /\ lastp # <<>> /\ lastp' = lastp
    /\ lastp[1] >= 0 /\ lastp[1] <= Q

\* C8: update(p) called a second time with the same p in [0,1] changes
\* neither the target shape nor the animation.
C8_Idempotent ==
    [][RepeatedUpdate => (heap' = heap /\ anim' = anim)]_vars

\* Has the shape m, which was m0 when a was constructed, a's starting state?
AtStart(a, m, m0) ==
    CASE a.kind = "move"    -> m = MoveTo(m0, a.startPos)
      [] a.kind \in {"scale", "rotate"} -> m = m0
      [] a.kind = "fadein"  -> m = SetFillOpacity(m0, 0)
      [] a.kind = "fadeout" -> m = m0
      [] a.kind = "color"   -> m = m0
      [] a.kind = "path"    -> m = m0
      [] a.kind = "elastic" -> m = m0
      [] a.kind = "bounce"  -> m = m0
      [] OTHER              -> TRUE

\* Has it a's target state?
AtEnd(a, m, m0) ==
    CASE a.kind = "move"    -> m = MoveTo(m0, a.endPos)
      [] a.kind = "scale"   -> m = Scale(m0, a.endScale)
      [] a.kind = "rotate"  -> m = Rotate(m0, a.endAngle)
      [] a.kind = "fadein"  -> m = SetFillOpacity(m0, Q)
      [] a.kind = "fadeout" -> m = SetFillOpacity(m0, 0)
      [] a.kind = "color"   -> m = SetColor(m0, a.endColor)
      [] a.kind = "path"    -> m = MoveTo(m0, a.pathPoints[Len(a.pathPoints)])
      [] a.kind = "elastic" ->
            (CASE a.property = "scale"   -> m = Scale(m0, a.endValue)
               [] a.property = "opacity" -> m = SetFillOpacity(m0, a.endValue)
               [] a.property = "x"       -> m = MoveTo(m0, Vec(a.endValue, GetCenter(m0).Y))
               [] OTHER                  -> TRUE)
      [] OTHER              -> TRUE

HasTarget(a) == a.kind \notin {"none", "wait", "group"}

\* C9: after update(0.0) the target is in its pre-animation state and after
\* update(1.0) in the target state, for every animation and interpolation.
C9_Endpoints ==
    (HasTarget(anim) /\ ~play.active /\ calls >= 1) =>
        /\ lastp = <<0>> => AtStart(anim, heap[anim.target], SceneShapes[anim.target])
        /\ lastp = <<Q>> => AtEnd(anim, heap[anim.target], SceneShapes[anim.target])

\* a step that is one Update call on the animation
UpdateStep == lastp' # lastp \/ calls' # calls \/ play'.frame # play.frame

\* C10: over Update calls the recorded progress stays in [0,1] and never
\* decreases, and an Update of a finished animation changes neither the
\* target nor the finished flag.
C10_MonotoneThenFrozen ==
    [][(UpdateStep /\ HasTarget(anim)) =>
          /\ anim'.progress >= anim.progress
          /\ anim'.progress >= 0 /\ anim'.progress <= Q
          /\ anim.finished => (heap' = heap /\ anim'.finished)]_vars

\* the largest duration among the children of a group, 0 for none
LongestChild(g) ==
    IF g.animations = <<>> THEN 0
    ELSE CHOOSE d \in {g.animations[i].duration : i \in 1..Len(g.animations)} :
            \A i \in 1..Len(g.animations) : g.animations[i].duration <= d

\* C25: a Group's duration is the largest of its children's durations, and
\* once update(1.0) has been the latest update of the Group every child is
\* finished and so is the Group.
C25_GroupFinishes ==
    anim.kind = "group" =>
        /\ anim.duration = LongestChild(anim)
        /\ IsFinished(anim) <=> \A i \in 1..Len(anim.animations) : anim.animations[i].finished
        /\ lastp = <<Q>> => IsFinished(anim)

\* C25 for the groups that have a child of a duration above 0, and the
\* empty group
C25_GroupOfPositiveDuration ==
    (anim.kind = "group" /\ (anim.duration > 0 \/ anim.animations = <<>>)) =>
        /\ anim.duration = LongestChild(anim)
        /\ IsFinished(anim) <=> \A i \in 1..Len(anim.animations) : anim.animations[i].finished
        /\ lastp = <<Q>> => IsFinished(anim)

\* ------------------------------------------------------------------------
\* SpecCoord: a math.CoordinateSystem driven through its constructor and
\* its three scale setters
\* ------------------------------------------------------------------------

\* math.Min
Min(a, b) == IF IsNaN(a) \/ IsNaN(b) THEN NaN ELSE IF a < b THEN a ELSE b

\* a * f for a positive finite f; an infinite a stays infinite
Times(a, f) == IF a = Inf \/ a = -Inf THEN a ELSE FMul(a, f)

NewCoordinateSystem(width, height) ==
    [Width |-> width, Height |-> height, Scale |-> Q, made |-> TRUE]

\* CoordinateSystem.SetScale
SetScale(c, scale) == [c EXCEPT !.Scale = scale]

\* the factor SetAutoScale applies for the size of the content
AutoScaleFactor(logicalWidth, logicalHeight) ==
    IF FLt(logicalWidth, 10 * Q) /\ FLt(logicalHeight, 10 * Q) THEN (6 * Q) \div 10
    ELSE IF FLt(logicalWidth, 20 * Q) /\ FLt(logicalHeight, 20 * Q) THEN (5 * Q) \div 10
    ELSE (4 * Q) \div 10

\* the last step of SetAutoScale: a scale under 5 becomes 5
AtLeastFive(scale) == IF FLt(scale, 5 * Q) THEN 5 * Q ELSE scale

\* CoordinateSystem.SetAutoScale
SetAutoScale(c, logicalWidth, logicalHeight) ==
    [c EXCEPT !.Scale =
        AtLeastFive(Times(Min(FDiv(c.Width * Q, logicalWidth), FDiv(c.Height * Q, logicalHeight)),
                          AutoScaleFactor(logicalWidth, logicalHeight)))]

\* CoordinateSystem.SetFixedScale
SetFixedScale(c, pixelsPerUnit) == [c EXCEPT !.Scale = pixelsPerUnit]

\* canvas sizes a CoordinateSystem is constructed for
Widths == {800, 1280, 1920}

Heights == {600, 720, 1080}

\* float64 arguments of SetScale
ScaleArgs == {-Q, 0, Q \div 2, 2 * Q}

\* float64 arguments of SetFixedScale
PixelsPerUnit == {-40 * Q, 0, Q, 40 * Q}

\* content sizes passed to SetAutoScale
ContentSizes == {-5 * Q, 0, 5 * Q, 15 * Q, 25 * Q, 2000 * Q}

CoordNew ==
    /\ \E w \in Widths, h \in Heights : cs' = NewCoordinateSystem(w, h)
    /\ UNCHANGED <<heap, interpreterVars, animationVars>>

CoordSetScale ==
    /\ cs.made
    /\ \E scale \in ScaleArgs : cs' = SetScale(cs, scale)
    /\ UNCHANGED <<heap, interpreterVars, animationVars>>

CoordSetAutoScale ==
    /\ cs.made
    /\ \E lw \in ContentSizes, lh \in ContentSizes : cs' = SetAutoScale(cs, lw, lh)
    /\ UNCHANGED <<heap, interpreterVars, animationVars>>

CoordSetFixedScale ==
    /\ cs.made
    /\ \E pixelsPerUnit \in PixelsPerUnit : cs' = SetFixedScale(cs, pixelsPerUnit)
    /\ UNCHANGED <<heap, interpreterVars, animationVars>>

CoordNext == CoordNew \/ CoordSetScale \/ CoordSetAutoScale \/ CoordSetFixedScale

SpecCoord == Init /\ [][CoordNext]_vars

\* C13: the scale of a constructed CoordinateSystem is greater than 0.
C13_ScalePositive == cs.made => FGt(cs.Scale, 0)

\* ------------------------------------------------------------------------
\* SpecMove: an Animation whose target a caller also moves in place
\* (Mobject.Shift) between construction and the Update calls
\* ------------------------------------------------------------------------

\* in-place moves made on a shape after the animation is constructed
MaxMoves == 1

Offsets == {Vec(10 * Q, 0), Vec(0, -5 * Q)}

\* a caller moves a shape of the scene: m.Shift(offset)
ShiftTarget ==
    /\ anim # NoAnim
    /\ moves < MaxMoves
    /\ \E t \in DOMAIN heap, offset \in Offsets :
          heap' = [heap EXCEPT ![t] = Shift(heap[t], offset)]
    /\ moves' = moves + 1
    /\ UNCHANGED <<anim, play, calls, lastp, interpreterVars, cs>>

MoveNext == Construct \/ ShiftTarget \/ DirectUpdate

SpecMove == AnimInit /\ [][MoveNext]_vars

\* the points update(p) of the Scale/Rotate animation a gives the shape m0
\* it was constructed on, when nothing else has touched that shape
TransformedOnce(a, m0, p) ==
    Update([a EXCEPT !.initialPoints = m0.points, !.aliased = FALSE], m0, p, FrameEnv).m.points

\* C24: every update(p) of a Scale or Rotate animation leaves the target with
\* the points it had at construction transformed once by the value for p, and
\* no step alters the snapshot the animation restores.
C24_SnapshotRestored ==
    [][anim.kind \in {"scale", "rotate"} =>
          /\ calls' = calls + 1 =>
                heap'[anim.target].points =
                    TransformedOnce(anim, SceneShapes[anim.target], lastp'[1])
          /\ SnapshotOf(anim', heap'[anim.target]) = SceneShapes[anim.target].points]_vars

\* with no in-place move the snapshot discipline holds
C24_WithoutMoves ==
    [][(anim.kind \in {"scale", "rotate"} /\ moves' = 0) =>
          /\ calls' = calls + 1 =>
                heap'[anim.target].points =
                    TransformedOnce(anim, SceneShapes[anim.target], lastp'[1])
          /\ SnapshotOf(anim', heap'[anim.target]) = SceneShapes[anim.target].points]_vars

====
